---- MODULE Spec2Model ----
(***************************************************************************)
(* Model of the shopeat repository:                                        *)
(*   - the CLI ShoppingList of backend/cli_shopping.py,                    *)
(*   - the FastAPI backend of backend/main.py (ConnectionManager, the      *)
(*     WebSocket handler, the shopping-list store, the HTTP endpoints),    *)
(*   - the duplex audio relay of backend/realtime.py (capture callback,    *)
(*     mic queue, send loop, receive loop, main),                          *)
(*   - the interactive loop of backend/cli_shopping.py,                    *)
(*   - the record / recognise / ask / play loop of                         *)
(*     backend/voice_duplex_chat.py.                                       *)
(* Strings are sequences of one-character strings, so that str.lower()     *)
(* and the `in` substring test are computed, not assumed.                  *)
(***************************************************************************)
EXTENDS Integers, Sequences, FiniteSets, TLC

VARIABLES
    \* ---- cli_shopping.py
    cli_items,          \* ShoppingList.items
    cli_calls,          \* the add_item calls made so far (the caller's history)
    cli_before,         \* ShoppingList.items as the last command found it
    cli_op,             \* the last command: the method called and its arguments
    cli_out,            \* the `categories` dict display built and printed, if the last command was display
    cli_repeat,         \* the last command repeated the one before it, arguments included
    heard,              \* the user texts given to keyword detection so far
    \* ---- main.py
    openai_api_key,     \* bool(os.getenv("OPENAI_API_KEY")), read once at import
    active_connections, \* ConnectionManager.active_connections (a list)
    agent_runners,      \* ConnectionManager.agent_runners: client_id -> runner (0: no entry)
    shopping_list,      \* the module-level shopping_list
    pc,                 \* per websocket: where its websocket_endpoint coroutine is
    cid,                \* per websocket: the client_id path parameter
    data,               \* per websocket: the frame being processed (once closed: the frame whose processing raised)
    user_text,          \* per websocket: the local `user_text` of process_voice_input_with_agent
    runner,             \* per websocket: the local `runner` of process_voice_input_with_agent
    sess,               \* per websocket: the runner whose session is open (0: none)
    resp,               \* per websocket: the local `response` about to be sent
    next_runner,        \* identity of the next RealtimeRunner object constructed
    stale_runners,      \* history: the (client_id, runner) pairs that were mapped when a handler of client_id ended
    \* ---- realtime.py
    mic_q,              \* mic_q: queue.Queue(maxsize=20)
    stop_evt,           \* stop_evt: threading.Event
    ws_open,            \* the websockets connection is open
    sender_pc,          \* sender() task
    chunk,              \* sender's local `chunk`
    receiver_pc,        \* receiver() task
    main_pc,            \* main() after the tasks were created
    cb_pc,              \* the capture callback on the audio thread
    cb_frame,           \* the callback's local pcm16
    mic_pc,             \* audio_stream() on the executor thread
    captured,           \* number of frames captured so far (mod NumFrameIds)
    last_append,        \* last frame sent as input_audio_buffer.append (-1: none)
    player_open,        \* Player stream not yet closed
    fatal_seen,         \* history: receiver() was handed an error event of fatal severity
    rx_last,            \* history: the last event receiver() dispatched, and whether it was played
    session_updates,    \* number of session.update messages sent on the connection
    \* ---- cli_shopping.py: ShoppingAssistant.run
    cli_pc,             \* where run() is: entered, at the prompt, in chat(), or returned
    cli_report,         \* what the last iteration of the loop came to
    conversation_history, \* len(self.conversation_history)
    cli_input,          \* the line input() returned last, before .strip()
    \* ---- voice_duplex_chat.py
    vd_pc,              \* where main() / voice_conversation_loop() / chat_with_agent() is
    vd_streams,         \* the input and output streams are started
    vd_rec,             \* number of record_audio calls made so far (mod NumRecordings)
    vd_audio,           \* user_audio: the recording it holds (-1: none)
    vd_recognized,      \* history: user_audio has been given to audio_to_text
    vd_outcome,         \* history: how the last audio_to_text call ended
    vd_text,            \* user_text of chat_with_agent
    vd_sessions,        \* sessions opened by the current chat_with_agent call
    vd_open,            \* a session of runner.run() is open
    vd_transcript,      \* len(full_transcript)
    vd_chunks,          \* number of audio events added to response_audio
    vd_events,          \* event_count of the debug session
    vd_result,          \* what chat_with_agent returned last
    vd_recording,       \* self.recording
    vd_input_queue,     \* self.input_queue: frames, each the recording it was captured in
    vd_frames,          \* record_audio's local list `frames`
    vd_in_data,         \* the frame audio_input_callback is about to put (-1: none)
    vd_playing,         \* self.playing
    vd_output_queue,    \* self.output_queue
    vd_to_play,         \* play_audio: the chunks its for loop has still to put
    vd_device           \* history: what audio_output_callback returned during play_audio

cliVars == <<cli_items, cli_calls, cli_before, cli_op, cli_out, cli_repeat, heard>>
backendVars == <<openai_api_key, active_connections, agent_runners, shopping_list,
                 pc, cid, data, user_text, runner, sess, resp, next_runner, stale_runners>>
rtVars == <<mic_q, stop_evt, ws_open, sender_pc, chunk, receiver_pc, main_pc,
            cb_pc, cb_frame, mic_pc, captured, last_append, player_open, fatal_seen, rx_last, session_updates>>
runVars == <<cli_pc, cli_report, conversation_history, cli_input>>
auVars == <<vd_recording, vd_input_queue, vd_frames, vd_in_data,
            vd_playing, vd_output_queue, vd_to_play, vd_device>>
vdVars == <<vd_pc, vd_streams, vd_rec, vd_audio, vd_recognized, vd_outcome, vd_text,
            vd_sessions, vd_open, vd_transcript, vd_chunks, vd_events, vd_result, auVars>>
vars == <<cliVars, backendVars, rtVars, runVars, vdVars>>

----------------------------------------------------------------------------
(* Strings                                                                 *)

\* str.lower() on one character
LowerChar(c) ==
    CASE c = "M" -> "m"
      [] c = "I" -> "i"
      [] c = "L" -> "l"
      [] c = "K" -> "k"
      [] c = "E" -> "e"
      [] c = "G" -> "g"
      [] c = "S" -> "s"
      [] c = "B" -> "b"
      [] c = "R" -> "r"
      [] c = "A" -> "a"
      [] c = "D" -> "d"
      [] c = "Q" -> "q"
      [] c = "U" -> "u"
      [] c = "T" -> "t"
      [] c = "X" -> "x"
      [] c = "Y" -> "y"
      [] c = "H" -> "h"
      [] c = "P" -> "p"
      [] c = "C" -> "c"
      [] OTHER -> c

\* str.lower()
Lower(s) == [i \in DOMAIN s |-> LowerChar(s[i])]

\* Python's `kw in text` on strings: kw is a contiguous substring of text
Contains(txt, kw) ==
    \E i \in 1..(Len(txt) - Len(kw) + 1) : SubSeq(txt, i, i + Len(kw) - 1) = kw

Milk == <<"M", "i", "l", "k">>
milk == <<"m", "i", "l", "k">>
MILK == <<"M", "I", "L", "K">>
Eggs == <<"E", "g", "g", "s">>
eggs == <<"e", "g", "g", "s">>
bread == <<"b", "r", "e", "a", "d">>

\* item names the callers use
Names == {Milk, milk, MILK, Eggs}
Quantities == {1, 2}
\* (category, notes) pairs the callers use
Details == {<<"dairy", "">>, <<"general", "organic">>}

----------------------------------------------------------------------------
(* cli_shopping.py: ShoppingList                                           *)

\* ShoppingItem.__init__
cli_ShoppingItem(name, quantity, category, notes) ==
    [name |-> name, quantity |-> quantity, category |-> category, notes |-> notes]

\* next((item for item in items if item.name.lower() == name.lower()), None):
\* the index of the first match, 0 for None
FirstMatch(items, name) ==
    IF \E i \in 1..Len(items) : Lower(items[i].name) = Lower(name)
    THEN CHOOSE i \in 1..Len(items) :
            /\ Lower(items[i].name) = Lower(name)
            /\ \A j \in 1..(i - 1) : Lower(items[j].name) # Lower(name)
    ELSE 0

\* a faulty variant of add_item: the lookup compares names case-sensitively
add_item_case_sensitive(items, name, quantity, category, notes) ==
    IF \E i \in 1..Len(items) : items[i].name = name
    THEN LET k == CHOOSE i \in 1..Len(items) : items[i].name = name
         IN  [items EXCEPT ![k].quantity = @ + quantity]
    ELSE Append(items, cli_ShoppingItem(name, quantity, category, notes))

\* a faulty variant of add_item: a match takes the new call's name, category and notes
add_item_updates_details(items, name, quantity, category, notes) ==
    LET k == FirstMatch(items, name)
    IN  IF k # 0
        THEN [items EXCEPT ![k] = cli_ShoppingItem(name, @.quantity + quantity, category, notes)]
        ELSE Append(items, cli_ShoppingItem(name, quantity, category, notes))

\* ShoppingList.add_item
add_item(items, name, quantity, category, notes) ==
    LET k == FirstMatch(items, name)
    IN  IF k # 0
        THEN [items EXCEPT ![k].quantity = @ + quantity]
        ELSE Append(items, cli_ShoppingItem(name, quantity, category, notes))

\* a faulty variant of remove_item: the entry is deleted by its index, and the
\* index of a name that is not found is -1, the last entry
remove_item_by_index(items, name) ==
    LET k == FirstMatch(items, name)
        at == IF k # 0 THEN k ELSE Len(items)
    IN  SubSeq(items, 1, at - 1) \o SubSeq(items, at + 1, Len(items))

\* ShoppingList.remove_item: [item for item in items if item.name.lower() != name.lower()]
remove_item(items, name) ==
    LET Kept(item) == Lower(item.name) # Lower(name)
    IN  SelectSeq(items, Kept)

\* a faulty variant of clear_list: one entry is popped
clear_list_pops(items) == SubSeq(items, 1, Len(items) - 1)

\* ShoppingList.clear_list: self.items.clear()
clear_list(items) == <<>>

\* a faulty variant of AddToCategories: the category's list is replaced, not extended
AddToCategories_overwrites(categories, item) ==
    IF \E g \in 1..Len(categories) : categories[g].category = item.category
    THEN LET g == CHOOSE g \in 1..Len(categories) : categories[g].category = item.category
         IN  [categories EXCEPT ![g].items = <<item>>]
    ELSE Append(categories, [category |-> item.category, items |-> <<item>>])

\* display, the loop body: `if item.category not in categories:
\* categories[item.category] = []`, then `categories[item.category].append(item)`.
\* A dict keeps its keys in insertion order: a sequence of (category, items).
AddToCategories(categories, item) ==
    IF \E g \in 1..Len(categories) : categories[g].category = item.category
    THEN LET g == CHOOSE g \in 1..Len(categories) : categories[g].category = item.category
         IN  [categories EXCEPT ![g].items = Append(@, item)]
    ELSE Append(categories, [category |-> item.category, items |-> <<item>>])

RECURSIVE GroupByCategory(_, _)
\* display: `for item in self.items` over the categories dict
GroupByCategory(categories, todo) ==
    IF todo = <<>> THEN categories
    ELSE GroupByCategory(AddToCategories(categories, Head(todo)), Tail(todo))

\* ShoppingList.display: the categories dict that is printed, group by group;
\* an empty list prints "Your shopping list is empty" and no group
display(items) == IF items = <<>> THEN <<>> ELSE GroupByCategory(<<>>, items)

\* the user text "I need milk and bread"
INeedMilkAndBread ==
    <<"I", " ", "n", "e", "e", "d", " ", "m", "i", "l", "k", " ",
      "a", "n", "d", " ", "b", "r", "e", "a", "d">>

\* process_shopping_items: the `if kw in user_text_lower: items_to_add.append(...)`
\* chain, in source order
CliVocabulary ==
    << [keys |-> {<<"m","i","l","k">>}, name |-> <<"m","i","l","k">>, category |-> "dairy"],
       [keys |-> {<<"c","h","e","e","s","e">>}, name |-> <<"c","h","e","e","s","e">>,
        category |-> "dairy"],
       [keys |-> {<<"b","u","t","t","e","r">>}, name |-> <<"b","u","t","t","e","r">>,
        category |-> "dairy"],
       [keys |-> {<<"y","o","g","u","r","t">>}, name |-> <<"y","o","g","u","r","t">>,
        category |-> "dairy"],
       [keys |-> {<<"c","r","e","a","m">>}, name |-> <<"c","r","e","a","m">>,
        category |-> "dairy"],
       [keys |-> {<<"b","a","n","a","n","a">>, <<"b","a","n","a","n","a","s">>},
        name |-> <<"b","a","n","a","n","a","s">>, category |-> "produce"],
       [keys |-> {<<"a","p","p","l","e">>, <<"a","p","p","l","e","s">>},
        name |-> <<"a","p","p","l","e","s">>, category |-> "produce"],
       [keys |-> {<<"t","o","m","a","t","o">>, <<"t","o","m","a","t","o","e","s">>},
        name |-> <<"t","o","m","a","t","o","e","s">>, category |-> "produce"],
       [keys |-> {<<"l","e","t","t","u","c","e">>}, name |-> <<"l","e","t","t","u","c","e">>,
        category |-> "produce"],
       [keys |-> {<<"c","a","r","r","o","t">>, <<"c","a","r","r","o","t","s">>},
        name |-> <<"c","a","r","r","o","t","s">>, category |-> "produce"],
       [keys |-> {<<"c","h","i","c","k","e","n">>}, name |-> <<"c","h","i","c","k","e","n">>,
        category |-> "meat"],
       [keys |-> {<<"b","e","e","f">>}, name |-> <<"b","e","e","f">>, category |-> "meat"],
       [keys |-> {<<"p","o","r","k">>}, name |-> <<"p","o","r","k">>, category |-> "meat"],
       [keys |-> {<<"f","i","s","h">>}, name |-> <<"f","i","s","h">>, category |-> "meat"],
       [keys |-> {<<"b","r","e","a","d">>}, name |-> <<"b","r","e","a","d">>,
        category |-> "bakery"],
       [keys |-> {<<"b","a","g","e","l">>, <<"b","a","g","e","l","s">>},
        name |-> <<"b","a","g","e","l","s">>, category |-> "bakery"],
       [keys |-> {<<"c","r","o","i","s","s","a","n","t">>,
                  <<"c","r","o","i","s","s","a","n","t","s">>},
        name |-> <<"c","r","o","i","s","s","a","n","t","s">>, category |-> "bakery"],
       [keys |-> {<<"r","i","c","e">>}, name |-> <<"r","i","c","e">>, category |-> "pantry"],
       [keys |-> {<<"p","a","s","t","a">>}, name |-> <<"p","a","s","t","a">>,
        category |-> "pantry"],
       [keys |-> {<<"o","i","l">>},
        name |-> <<"c","o","o","k","i","n","g"," ","o","i","l">>, category |-> "pantry"],
       [keys |-> {<<"s","a","u","c","e">>},
        name |-> <<"p","a","s","t","a"," ","s","a","u","c","e">>, category |-> "pantry"] >>

\* a faulty variant of cli_items_to_add: a keyword counts only as a whole
\* word of the text
cli_items_to_add_words(text) ==
    LET user_text_lower == Lower(text)
        Word(k) == \E i \in 1..(Len(user_text_lower) - Len(k) + 1) :
                      /\ SubSeq(user_text_lower, i, i + Len(k) - 1) = k
                      /\ i = 1 \/ user_text_lower[i - 1] = " "
                      /\ i + Len(k) - 1 = Len(user_text_lower)
                            \/ user_text_lower[i + Len(k)] = " "
        Hit(v) == \E k \in v.keys : Word(k)
    IN  SelectSeq(CliVocabulary, Hit)

\* the items_to_add list of process_shopping_items
cli_items_to_add(text) ==
    LET user_text_lower == Lower(text)
        Hit(v) == \E k \in v.keys : Contains(user_text_lower, k)
    IN  SelectSeq(CliVocabulary, Hit)

RECURSIVE AddAll(_, _)
\* the `for name, quantity, category in items_to_add` loop: add_item(name, 1, category)
AddAll(items, todo) ==
    IF todo = <<>> THEN items
    ELSE AddAll(add_item(items, Head(todo).name, 1, Head(todo).category, ""), Tail(todo))

\* ShoppingAssistant.process_shopping_items: the list after it
process_shopping_items(items, text) == AddAll(items, cli_items_to_add(text))

MaxCalls == 3
\* no item is added once that could take a quantity beyond MaxQuantity
MaxQuantity == 3

\* the add_item calls the callers of the fuller command set make
CliCalls ==
    { [name |-> Milk,  quantity |-> 1, category |-> "dairy",   notes |-> ""],
      [name |-> milk,  quantity |-> 2, category |-> "general", notes |-> "organic"],
      [name |-> Eggs,  quantity |-> 1, category |-> "dairy",   notes |-> ""],
      [name |-> bread, quantity |-> 2, category |-> "general", notes |-> ""] }
\* the names they pass to remove_item
CliNames == {MILK, eggs, bread}
\* the texts typed at the prompt that are neither 'list' nor 'clear'
CliTexts == {INeedMilkAndBread}

\* no command yet
NoOp == [op |-> "none", name |-> <<>>, quantity |-> 0, category |-> "", notes |-> "",
         text |-> <<>>]

\* ShoppingAssistant.run is entered
RunInit ==
    /\ cli_pc = "start"
    /\ cli_report = "none"
    /\ conversation_history = 0
    /\ cli_input = <<>>

CliInit ==
    /\ cli_items = <<>>
    /\ cli_calls = <<>>
    /\ cli_before = <<>>
    /\ cli_op = NoOp
    /\ cli_out = <<>>
    /\ cli_repeat = FALSE
    /\ heard = <<>>

\* a caller invokes shopping_list.add_item(name, quantity, category, notes)
CliAddItem ==
    \E name \in Names, quantity \in Quantities, d \in Details :
        /\ Len(cli_calls) < MaxCalls
        /\ cli_items' = add_item(cli_items, name, quantity, d[1], d[2])
        /\ cli_calls' = Append(cli_calls, [name |-> name, quantity |-> quantity])
        /\ UNCHANGED <<cli_before, cli_op, cli_out, cli_repeat, heard>>

\* the bookkeeping of a command: what it found, what it was, whether it repeats
Command(op) ==
    /\ cli_before' = cli_items
    /\ cli_op' = op
    /\ cli_repeat' = (op = cli_op)
    /\ UNCHANGED <<cli_calls, heard>>

\* shopping_list.add_item(name, quantity, category, notes)
CliAdd(name, quantity, category, notes) ==
    /\ \A i \in 1..Len(cli_items) :
          Lower(cli_items[i].name) = Lower(name) =>
              cli_items[i].quantity + quantity <= MaxQuantity
    /\ cli_items' = add_item(cli_items, name, quantity, category, notes)
    /\ cli_out' = <<>>
    /\ Command([NoOp EXCEPT !.op = "add_item", !.name = name, !.quantity = quantity,
                            !.category = category, !.notes = notes])

\* shopping_list.remove_item(name)
CliRemove(name) ==
    /\ cli_items' = remove_item(cli_items, name)
    /\ cli_out' = <<>>
    /\ Command([NoOp EXCEPT !.op = "remove_item", !.name = name])

\* the 'clear' command: shopping_list.clear_list()
CliClear ==
    /\ cli_items' = clear_list(cli_items)
    /\ cli_out' = <<>>
    /\ Command([NoOp EXCEPT !.op = "clear_list"])

\* the 'list' command: shopping_list.display()
CliDisplay ==
    /\ cli_out' = display(cli_items)
    /\ UNCHANGED cli_items
    /\ Command([NoOp EXCEPT !.op = "display"])

\* any other text typed at the prompt: process_shopping_items(user_input)
CliProcess(text) ==
    /\ \A i \in 1..Len(cli_items) : cli_items[i].quantity < MaxQuantity
    /\ cli_items' = process_shopping_items(cli_items, text)
    /\ cli_out' = <<>>
    /\ Command([NoOp EXCEPT !.op = "process_shopping_items", !.text = text])

CliNext ==
    \/ \E c \in CliCalls : CliAdd(c.name, c.quantity, c.category, c.notes)
    \/ \E name \in CliNames : CliRemove(name)
    \/ CliClear
    \/ CliDisplay
    \/ \E text \in CliTexts : CliProcess(text)

----------------------------------------------------------------------------
(* cli_shopping.py: ShoppingAssistant.run                                  *)

\* chats whose exchange is appended to conversation_history
MaxTurns == 2

\* lines typed at the prompt: blank ones, the commands in several casings and
\* with blanks around them, and texts that are no command
RunTexts ==
    CliTexts \cup
    { <<>>, <<" ">>, Milk,
      <<"q", "u", "i", "t">>, <<" ", "Q", "U", "I", "T", " ">>,
      <<"E", "x", "i", "t">>, <<"b", "y", "e">>,
      <<"L", "i", "s", "t", " ">>, <<"c", "l", "e", "a", "r">>,
      <<" ", "H", "E", "L", "P">> }

\* a faulty variant of strip: only the leading whitespace is removed
RECURSIVE strip_leading(_)
strip_leading(s) ==
    IF s # <<>> /\ Head(s) = " " THEN strip_leading(Tail(s)) ELSE s

\* str.strip(): leading and trailing whitespace removed
RECURSIVE strip(_)
strip(s) ==
    IF s # <<>> /\ Head(s) = " " THEN strip(Tail(s))
    ELSE IF s # <<>> /\ s[Len(s)] = " " THEN strip(SubSeq(s, 1, Len(s) - 1))
    ELSE s

\* the branch of the if/elif chain that user_input takes
user_command(user_input) ==
    IF user_input = <<>> THEN "empty"
    ELSE IF Lower(user_input) \in {<<"q", "u", "i", "t">>, <<"e", "x", "i", "t">>,
                                   <<"b", "y", "e">>} THEN "quit"
    ELSE IF Lower(user_input) = <<"l", "i", "s", "t">> THEN "list"
    ELSE IF Lower(user_input) = <<"c", "l", "e", "a", "r">> THEN "clear"
    ELSE IF Lower(user_input) = <<"h", "e", "l", "p">> THEN "help"
    ELSE "text"

\* `if not self.openai_api_key: return`, else the banner and the first prompt
RunStart ==
    /\ cli_pc = "start"
    /\ cli_pc' = IF openai_api_key THEN "prompt" ELSE "exited"
    /\ UNCHANGED <<cli_report, conversation_history, cli_input, cliVars>>
    /\ UNCHANGED <<backendVars, rtVars, vdVars>>

\* `if not user_input: continue`
RunEmpty(line) ==
    /\ cli_pc = "prompt"
    /\ user_command(strip(line)) = "empty"
    /\ cli_input' = line
    /\ cli_report' = "empty"
    /\ UNCHANGED <<cli_pc, conversation_history, cliVars>>
    /\ UNCHANGED <<backendVars, rtVars, vdVars>>

\* 'quit', 'exit' or 'bye': break
RunQuit(line) ==
    /\ cli_pc = "prompt"
    /\ user_command(strip(line)) = "quit"
    /\ cli_input' = line
    /\ cli_pc' = "exited"
    /\ cli_report' = "quit"
    /\ UNCHANGED <<conversation_history, cliVars>>
    /\ UNCHANGED <<backendVars, rtVars, vdVars>>

\* 'list'
RunList(line) ==
    /\ cli_pc = "prompt"
    /\ user_command(strip(line)) = "list"
    /\ cli_input' = line
    /\ CliDisplay
    /\ cli_report' = "list"
    /\ UNCHANGED <<cli_pc, conversation_history>>
    /\ UNCHANGED <<backendVars, rtVars, vdVars>>

\* 'clear'
RunClear(line) ==
    /\ cli_pc = "prompt"
    /\ user_command(strip(line)) = "clear"
    /\ cli_input' = line
    /\ CliClear
    /\ cli_report' = "clear"
    /\ UNCHANGED <<cli_pc, conversation_history>>
    /\ UNCHANGED <<backendVars, rtVars, vdVars>>

\* 'help'
RunHelp(line) ==
    /\ cli_pc = "prompt"
    /\ user_command(strip(line)) = "help"
    /\ cli_input' = line
    /\ cli_report' = "help"
    /\ UNCHANGED <<cli_pc, conversation_history, cliVars>>
    /\ UNCHANGED <<backendVars, rtVars, vdVars>>

\* any other text: process_shopping_items(user_input), then chat() is awaited
RunText(line) ==
    /\ cli_pc = "prompt"
    /\ user_command(strip(line)) = "text"
    /\ cli_input' = line
    /\ conversation_history < MaxTurns
    /\ CliProcess(strip(line))
    /\ cli_pc' = "chat"
    /\ cli_report' = "text"
    /\ UNCHANGED conversation_history
    /\ UNCHANGED <<backendVars, rtVars, vdVars>>

\* chat() returns the agent's text or, having caught an exception, its own
\* error text; it is printed and the exchange appended
RunChatReturns ==
    /\ cli_pc = "chat"
    /\ cli_pc' = "prompt"
    /\ cli_report' = "chat"
    /\ conversation_history' = conversation_history + 1
    /\ UNCHANGED <<cli_input, cliVars>>
    /\ UNCHANGED <<backendVars, rtVars, vdVars>>

\* a faulty variant of RunIterationRaises: the exception ends the loop
RunIterationRaises_exits ==
    /\ cli_pc \in {"prompt", "chat"}
    /\ cli_pc' = "exited"
    /\ cli_report' = "error"
    /\ UNCHANGED <<conversation_history, cli_input, cliVars>>
    /\ UNCHANGED <<backendVars, rtVars, vdVars>>

\* an Exception raised in the iteration: by input() at the prompt (EOFError),
\* or by a print after process_shopping_items; `except Exception` prints it
RunIterationRaises ==
    /\ cli_pc \in {"prompt", "chat"}
    /\ cli_pc' = "prompt"
    /\ cli_report' = "error"
    /\ UNCHANGED <<conversation_history, cli_input, cliVars>>
    /\ UNCHANGED <<backendVars, rtVars, vdVars>>

\* Ctrl+C: `except KeyboardInterrupt` prints the farewell and breaks
RunInterrupt ==
    /\ cli_pc \in {"prompt", "chat"}
    /\ cli_pc' = "exited"
    /\ cli_report' = "interrupt"
    /\ UNCHANGED <<conversation_history, cli_input, cliVars>>
    /\ UNCHANGED <<backendVars, rtVars, vdVars>>

RunNext ==
    \/ RunStart
    \/ \E line \in RunTexts : RunEmpty(line)
    \/ \E line \in RunTexts : RunQuit(line)
    \/ \E line \in RunTexts : RunList(line)
    \/ \E line \in RunTexts : RunClear(line)
    \/ \E line \in RunTexts : RunHelp(line)
    \/ \E line \in RunTexts : RunText(line)
    \/ RunChatReturns
    \/ RunIterationRaises
    \/ RunInterrupt

----------------------------------------------------------------------------
(* main.py: data                                                           *)

WebSockets == {1, 2}
ClientIds == {"a", "b"}
MaxRunners == 2
MaxItems == 2

banana == <<"b", "a", "n", "a", "n", "a">>
bananas == <<"b", "a", "n", "a", "n", "a", "s">>
apple == <<"a", "p", "p", "l", "e">>
apples == <<"a", "p", "p", "l", "e", "s">>
cheese == <<"c", "h", "e", "e", "s", "e">>
butter == <<"b", "u", "t", "t", "e", "r">>
chicken == <<"c", "h", "i", "c", "k", "e", "n">>
beef == <<"b", "e", "e", "f">>
rice == <<"r", "i", "c", "e">>
pasta == <<"p", "a", "s", "t", "a">>

\* the `if kw in user_text_lower: items_to_add.append(...)` chain, in source order
Vocabulary ==
    << [keys |-> {milk},            name |-> milk,    category |-> "dairy"],
       [keys |-> {bread},           name |-> bread,   category |-> "bakery"],
       [keys |-> {eggs},            name |-> eggs,    category |-> "dairy"],
       [keys |-> {cheese},          name |-> cheese,  category |-> "dairy"],
       [keys |-> {butter},          name |-> butter,  category |-> "dairy"],
       [keys |-> {banana, bananas}, name |-> bananas, category |-> "produce"],
       [keys |-> {apple, apples},   name |-> apples,  category |-> "produce"],
       [keys |-> {chicken},         name |-> chicken, category |-> "meat"],
       [keys |-> {beef},            name |-> beef,    category |-> "meat"],
       [keys |-> {rice},            name |-> rice,    category |-> "pantry"],
       [keys |-> {pasta},           name |-> pasta,   category |-> "pantry"] >>

\* class ShoppingItem(BaseModel): a validated item
ShoppingItem(name, quantity, category, notes) ==
    [name |-> name, quantity |-> quantity, category |-> category, notes |-> notes]

\* ShoppingItem(**item_data) raises ValidationError: `name` has no default
ValidationError(item_data) == ~item_data.has_name

\* the "item" payloads clients send ({} when the key is absent)
ItemData ==
    { [has_name |-> TRUE,  name |-> Milk, quantity |-> 1, category |-> "dairy",   notes |-> ""],
      [has_name |-> FALSE, name |-> <<>>, quantity |-> 1, category |-> "general", notes |-> ""] }

\* user texts of voice_input messages: "" and "Milk"
Texts == {<<>>, Milk}

NoItem == [has_name |-> FALSE, name |-> <<>>, quantity |-> 1, category |-> "general", notes |-> ""]

\* what websocket.receive_text() can deliver. raw: "invalid_json" (json.loads
\* raises), "array" (valid JSON that is no object), "object". type/action "none":
\* the key is absent, message.get returns None.
Messages ==
    { [raw |-> "invalid_json", type |-> "none", action |-> "none", text |-> <<>>, item |-> NoItem],
      [raw |-> "array",        type |-> "none", action |-> "none", text |-> <<>>, item |-> NoItem],
      [raw |-> "object",       type |-> "none", action |-> "none", text |-> <<>>, item |-> NoItem],
      [raw |-> "object",       type |-> "ping", action |-> "none", text |-> <<>>, item |-> NoItem] }
    \cup { [raw |-> "object", type |-> "voice_input", action |-> "none", text |-> t, item |-> NoItem] :
             t \in Texts }
    \cup { [raw |-> "object", type |-> "shopping_action", action |-> "add_item", text |-> <<>>, item |-> d] :
             d \in ItemData }
    \cup { [raw |-> "object", type |-> "shopping_action", action |-> a, text |-> <<>>, item |-> NoItem] :
             a \in {"get_list", "clear_list", "remove_item"} }

NoMessage == [raw |-> "none", type |-> "none", action |-> "none", text |-> <<>>, item |-> NoItem]

\* a response dict; the keys a response type does not carry are left at these values
NoResponse ==
    [type |-> "none", action |-> "", message |-> <<>>, item |-> NoItem, items |-> <<>>,
     total_items |-> 0, transcribed_text |-> <<>>, ai_response |-> "", data |-> NoMessage]

\* event.content of the agent_message events a session delivers
Contents == {"Added milk.", "What else?"}

----------------------------------------------------------------------------
(* main.py: ConnectionManager                                              *)

\* a faulty variant of disconnect: the list is emptied
disconnect_all(conns, websocket) == <<>>

\* a faulty variant of disconnect: the oldest connection is removed
disconnect_first(conns, websocket) == Tail(conns)

\* ConnectionManager.disconnect: list.remove(websocket)
disconnect(conns, websocket) ==
    LET k == CHOOSE i \in 1..Len(conns) :
                 conns[i] = websocket /\ \A j \in 1..(i - 1) : conns[j] # websocket
    IN  SubSeq(conns, 1, k - 1) \o SubSeq(conns, k + 1, Len(conns))

\* ConnectionManager.get_agent_runner: the map after the call, the runner
\* returned, and the identity the next constructed runner will have
get_agent_runner(runners, client_id, fresh) ==
    IF runners[client_id] = 0
    THEN [agent_runners |-> [runners EXCEPT ![client_id] = fresh],
          runner |-> fresh, next_runner |-> fresh + 1]
    ELSE [agent_runners |-> runners, runner |-> runners[client_id], next_runner |-> fresh]

\* a faulty variant of remove_agent_runner: the entry is kept
remove_agent_runner_keeps(runners, client_id) == runners

\* ConnectionManager.remove_agent_runner
remove_agent_runner(runners, client_id) ==
    IF runners[client_id] # 0 THEN [runners EXCEPT ![client_id] = 0] ELSE runners

----------------------------------------------------------------------------
(* main.py: shopping list                                                  *)

\* the items_to_add list of process_shopping_from_response
items_to_add(text) ==
    LET user_text_lower == Lower(text)
        Hit(v) == \E k \in v.keys : Contains(user_text_lower, k)
    IN  SelectSeq(Vocabulary, Hit)

RECURSIVE AddDetected(_, _)
\* the `for name, quantity, category in items_to_add` loop
AddDetected(list, todo) ==
    IF todo = <<>> THEN list
    ELSE LET v == Head(todo)
             existing == \E i \in 1..Len(list) : Lower(list[i].name) = Lower(v.name)
         IN  AddDetected(IF existing THEN list
                         ELSE Append(list, ShoppingItem(v.name, 1, v.category, "")),
                         Tail(todo))

\* process_shopping_from_response: the shopping list after it
process_shopping_from_response(list, text) == AddDetected(list, items_to_add(text))

\* a faulty variant of unknown_action: the list is cleared and no error is reported
unknown_action_clears(list, message) ==
    [raised |-> FALSE, shopping_list |-> <<>>,
     response |-> [NoResponse EXCEPT !.type = "shopping_update", !.action = "list_cleared"]]

\* process_shopping_action, the final else: the error response
unknown_action(list, message) ==
    [raised |-> FALSE, shopping_list |-> list,
     response |-> [NoResponse EXCEPT
         !.type = "error", !.message = <<"Unknown action", message.action>>]]

\* process_shopping_action: raised (ValidationError), the list after it, the response
process_shopping_action(list, message) ==
    CASE message.action = "add_item" ->
            IF ValidationError(message.item)
            THEN [raised |-> TRUE, shopping_list |-> list, response |-> NoResponse]
            ELSE LET item == ShoppingItem(message.item.name, message.item.quantity,
                                          message.item.category, message.item.notes)
                     after == Append(list, item)
                 IN  [raised |-> FALSE, shopping_list |-> after,
                      response |-> [NoResponse EXCEPT
                          !.type = "shopping_update", !.action = "item_added",
                          !.item = [message.item EXCEPT !.has_name = TRUE],
                          !.total_items = Len(after),
                          !.message = <<"Added to your shopping list", item.name>>]]
      [] message.action = "get_list" ->
            [raised |-> FALSE, shopping_list |-> list,
             response |-> [NoResponse EXCEPT
                 !.type = "shopping_list", !.items = list, !.total_items = Len(list)]]
      [] message.action = "clear_list" ->
            [raised |-> FALSE, shopping_list |-> <<>>,
             response |-> [NoResponse EXCEPT
                 !.type = "shopping_update", !.action = "list_cleared",
                 !.total_items = 0,
                 !.message = <<"Your shopping list has been cleared">>]]
      [] OTHER -> unknown_action(list, message)

----------------------------------------------------------------------------
(* main.py: websocket_endpoint and the request handlers                    *)

BackendInit ==
    /\ openai_api_key \in BOOLEAN
    /\ active_connections = <<>>
    /\ agent_runners = [c \in ClientIds |-> 0]
    /\ shopping_list = <<>>
    /\ pc = [w \in WebSockets |-> "closed"]
    /\ cid = [w \in WebSockets |-> "-"]
    /\ data = [w \in WebSockets |-> NoMessage]
    /\ user_text = [w \in WebSockets |-> <<>>]
    /\ runner = [w \in WebSockets |-> 0]
    /\ sess = [w \in WebSockets |-> 0]
    /\ resp = [w \in WebSockets |-> NoResponse]
    /\ next_runner = 1
    /\ stale_runners = {}

OtherVarsUnchanged == UNCHANGED <<cliVars, rtVars, runVars, vdVars>>

\* a faulty variant of aexit: the session is left open
aexit_leaks(sessions, w) == sessions

\* leaving `async with await runner.run() as session`: the session is closed
aexit(sessions, w) == [sessions EXCEPT ![w] = 0]

\* `async with await runner.run() as session`: the session is entered
aenter(sessions, w, r) == [sessions EXCEPT ![w] = r]

\* a client opens /ws/{client_id}: manager.connect
Connect(w, client_id) ==
    /\ pc[w] = "closed"
    /\ active_connections' = Append(active_connections, w)
    /\ pc' = [pc EXCEPT ![w] = "receive"]
    /\ cid' = [cid EXCEPT ![w] = client_id]
    /\ data' = [data EXCEPT ![w] = NoMessage]
    /\ UNCHANGED <<openai_api_key, agent_runners, shopping_list, user_text,
                   runner, sess, resp, next_runner, stale_runners>>
    /\ OtherVarsUnchanged

\* the two except clauses of websocket_endpoint: manager.disconnect(websocket),
\* manager.remove_agent_runner(client_id), and the coroutine returns.
\* cause: the frame whose processing raised (NoMessage: the peer went away)
HandlerExit(w, cause) ==
    /\ active_connections' = disconnect(active_connections, w)
    /\ agent_runners' = remove_agent_runner(agent_runners, cid[w])
    /\ stale_runners' = stale_runners \cup
           (IF agent_runners[cid[w]] # 0 THEN {<<cid[w], agent_runners[cid[w]]>>} ELSE {})
    /\ pc' = [pc EXCEPT ![w] = "closed"]
    /\ cid' = [cid EXCEPT ![w] = "-"]
    /\ data' = [data EXCEPT ![w] = cause]
    /\ resp' = [resp EXCEPT ![w] = NoResponse]
    /\ UNCHANGED <<openai_api_key, shopping_list, user_text, runner, sess, next_runner>>
    /\ OtherVarsUnchanged

\* the response is computed; the handler is at send_personal_message
Respond(w, response) ==
    /\ resp' = [resp EXCEPT ![w] = response]
    /\ pc' = [pc EXCEPT ![w] = "send"]

\* data = await websocket.receive_text() returns the frame m
Received(w, m) ==
    /\ pc[w] = "receive"
    /\ data' = [data EXCEPT ![w] = m]

\* receive_text raises WebSocketDisconnect: the client went away
ClientDisconnect(w) ==
    /\ pc[w] = "receive"
    /\ HandlerExit(w, NoMessage)

\* json.loads(data) raises, or message.get raises AttributeError on a non-dict
ReceiveInvalid(w, m) ==
    /\ pc[w] = "receive"
    /\ m.raw \in {"invalid_json", "array"}
    /\ HandlerExit(w, m)

\* a faulty variant of ReceiveOther: an unrecognized type ends the handler
ReceiveOther_drops(w, m) ==
    /\ pc[w] = "receive"
    /\ m.raw = "object"
    /\ m.type \notin {"voice_input", "shopping_action"}
    /\ HandlerExit(w, m)

\* the else branch: echo
ReceiveOther(w, m) ==
    /\ Received(w, m)
    /\ m.raw = "object"
    /\ m.type \notin {"voice_input", "shopping_action"}
    /\ Respond(w, [NoResponse EXCEPT !.type = "echo", !.data = m])
    /\ UNCHANGED <<openai_api_key, active_connections, agent_runners, shopping_list,
                   cid, user_text, runner, sess, next_runner, stale_runners>>
    /\ OtherVarsUnchanged

\* type == "shopping_action": process_shopping_action
ReceiveShopping(w, m) ==
    /\ pc[w] = "receive"
    /\ m.raw = "object"
    /\ m.type = "shopping_action"
    /\ m.action = "add_item" => Len(shopping_list) < MaxItems
    /\ LET r == process_shopping_action(shopping_list, m)
       IN  IF r.raised
           THEN HandlerExit(w, m)
           ELSE /\ data' = [data EXCEPT ![w] = m]
                /\ shopping_list' = r.shopping_list
                /\ Respond(w, r.response)
                /\ UNCHANGED <<openai_api_key, active_connections, agent_runners,
                               cid, user_text, runner, sess, next_runner,
                               stale_runners>>
                /\ OtherVarsUnchanged

\* type == "voice_input": process_voice_input_with_agent up to `await runner.run()`
ReceiveVoice(w, m) ==
    /\ Received(w, m)
    /\ m.raw = "object"
    /\ m.type = "voice_input"
    /\ IF ~openai_api_key
       THEN /\ Respond(w, [NoResponse EXCEPT !.type = "error",
                              !.message = <<"OpenAI API not configured">>])
            /\ UNCHANGED <<agent_runners, user_text, runner, next_runner>>
       ELSE IF m.text = <<>>
       THEN /\ Respond(w, [NoResponse EXCEPT !.type = "error",
                              !.message = <<"No text received from frontend">>])
            /\ UNCHANGED <<agent_runners, user_text, runner, next_runner>>
       ELSE /\ agent_runners[cid[w]] = 0 => next_runner <= MaxRunners
            /\ LET g == get_agent_runner(agent_runners, cid[w], next_runner)
               IN  /\ agent_runners' = g.agent_runners
                   /\ runner' = [runner EXCEPT ![w] = g.runner]
                   /\ next_runner' = g.next_runner
            /\ user_text' = [user_text EXCEPT ![w] = m.text]
            /\ pc' = [pc EXCEPT ![w] = "run"]
            /\ UNCHANGED resp
    /\ UNCHANGED <<openai_api_key, active_connections, shopping_list, cid, sess, stale_runners>>
    /\ OtherVarsUnchanged

\* leaving process_voice_input_with_agent with a response
VoiceReturns(w, response) ==
    /\ Respond(w, response)
    /\ user_text' = [user_text EXCEPT ![w] = <<>>]
    /\ runner' = [runner EXCEPT ![w] = 0]

\* `async with await runner.run() as session` is entered: a remote session is open
RunOpens(w) ==
    /\ pc[w] = "run"
    /\ sess' = aenter(sess, w, runner[w])
    /\ pc' = [pc EXCEPT ![w] = "session"]
    /\ UNCHANGED <<openai_api_key, active_connections, agent_runners, shopping_list,
                   cid, data, user_text, runner, resp, next_runner,
                   stale_runners>>
    /\ OtherVarsUnchanged

\* runner.run() or entering the session raises: the except clause answers
\* with f"Error processing voice input: {str(e)}"
RunRaises(w) ==
    /\ pc[w] = "run"
    /\ VoiceReturns(w, [NoResponse EXCEPT !.type = "error",
                           !.message = <<"Error processing voice input", "runner.run">>])
    /\ UNCHANGED <<openai_api_key, active_connections, agent_runners, shopping_list,
                   cid, data, sess, next_runner, stale_runners>>
    /\ OtherVarsUnchanged

\* an event whose type is not agent_message: the loop goes on
OtherEvent(w) ==
    /\ pc[w] = "session"
    /\ UNCHANGED backendVars
    /\ OtherVarsUnchanged

\* a faulty variant of AgentMessage: the response is noted and the iteration
\* over the session's events goes on
AgentMessage_goes_on(w) ==
    /\ pc[w] = "session"
    /\ \E content \in Contents :
          resp' = [resp EXCEPT ![w] = [NoResponse EXCEPT !.type = "voice_response",
                                         !.transcribed_text = user_text[w],
                                         !.ai_response = content]]
    /\ UNCHANGED <<openai_api_key, active_connections, agent_runners, shopping_list, pc,
                   cid, data, user_text, runner, sess, next_runner, stale_runners>>
    /\ OtherVarsUnchanged

\* the first agent_message: keyword detection, TTS, return inside the with block
AgentMessage(w) ==
    /\ pc[w] = "session"
    /\ Len(process_shopping_from_response(shopping_list, user_text[w])) <= MaxItems
    /\ shopping_list' = process_shopping_from_response(shopping_list, user_text[w])
    /\ sess' = aexit(sess, w)
    /\ \E content \in Contents :
          VoiceReturns(w, [NoResponse EXCEPT !.type = "voice_response",
                              !.transcribed_text = user_text[w],
                              !.ai_response = content])
    /\ UNCHANGED <<openai_api_key, active_connections, agent_runners, cid, data,
                   next_runner, stale_runners>>
    /\ OtherVarsUnchanged

\* a faulty variant of StreamEnds: keyword detection runs before the fallback
StreamEnds_detects(w) ==
    /\ pc[w] = "session"
    /\ Len(process_shopping_from_response(shopping_list, user_text[w])) <= MaxItems
    /\ shopping_list' = process_shopping_from_response(shopping_list, user_text[w])
    /\ sess' = aexit(sess, w)
    /\ VoiceReturns(w, [NoResponse EXCEPT !.type = "error",
                           !.message = <<"No response received from RealtimeAgent">>])
    /\ UNCHANGED <<openai_api_key, active_connections, agent_runners,
                   cid, data, next_runner, stale_runners>>
    /\ OtherVarsUnchanged

\* the event stream ends without an agent_message: the fallback return
StreamEnds(w) ==
    /\ pc[w] = "session"
    /\ sess' = aexit(sess, w)
    /\ VoiceReturns(w, [NoResponse EXCEPT !.type = "error",
                           !.message = <<"No response received from RealtimeAgent">>])
    /\ UNCHANGED <<openai_api_key, active_connections, agent_runners, shopping_list,
                   cid, data, next_runner, stale_runners>>
    /\ OtherVarsUnchanged

\* a faulty variant of SessionRaises: the session is closed and runner.run()
\* is tried again for the same message
SessionRaises_retries(w) ==
    /\ pc[w] = "session"
    /\ sess' = aexit(sess, w)
    /\ pc' = [pc EXCEPT ![w] = "run"]
    /\ UNCHANGED <<openai_api_key, active_connections, agent_runners, shopping_list,
                   cid, data, user_text, runner, resp, next_runner, stale_runners>>
    /\ OtherVarsUnchanged

\* send_message or the event iteration raises inside the with block: the
\* session is closed on the way out and the except clause answers
SessionRaises(w) ==
    /\ pc[w] = "session"
    /\ sess' = aexit(sess, w)
    /\ VoiceReturns(w, [NoResponse EXCEPT !.type = "error",
                           !.message = <<"Error processing voice input", "session">>])
    /\ UNCHANGED <<openai_api_key, active_connections, agent_runners, shopping_list,
                   cid, data, next_runner, stale_runners>>
    /\ OtherVarsUnchanged

\* manager.send_personal_message succeeds; back to receive_text
Send(w) ==
    /\ pc[w] = "send"
    /\ pc' = [pc EXCEPT ![w] = "receive"]
    /\ resp' = [resp EXCEPT ![w] = NoResponse]
    /\ data' = [data EXCEPT ![w] = NoMessage]
    /\ UNCHANGED <<openai_api_key, active_connections, agent_runners, shopping_list,
                   cid, user_text, runner, sess, next_runner, stale_runners>>
    /\ OtherVarsUnchanged

\* websocket.send_text raises: the client is gone
SendFails(w) ==
    /\ pc[w] = "send"
    /\ HandlerExit(w, NoMessage)

\* POST /api/shopping-list with a body that validates
add_shopping_item(item_data) ==
    /\ ~ValidationError(item_data)
    /\ Len(shopping_list) < MaxItems
    /\ shopping_list' = Append(shopping_list,
           ShoppingItem(item_data.name, item_data.quantity, item_data.category,
                        item_data.notes))
    /\ UNCHANGED <<openai_api_key, active_connections, agent_runners, pc, cid, data,
                   user_text, runner, sess, resp, next_runner, stale_runners>>
    /\ OtherVarsUnchanged

\* a faulty variant of get_shopping_list: the items are popped as they are serialised
get_shopping_list_pops ==
    /\ shopping_list # <<>>
    /\ shopping_list' = <<>>
    /\ UNCHANGED <<openai_api_key, active_connections, agent_runners, pc, cid, data,
                   user_text, runner, sess, resp, next_runner, stale_runners>>
    /\ OtherVarsUnchanged

\* GET /api/shopping-list
get_shopping_list ==
    /\ UNCHANGED backendVars
    /\ OtherVarsUnchanged

\* GET /health
health_check ==
    /\ UNCHANGED backendVars
    /\ OtherVarsUnchanged

BackendNext ==
    \/ \E w \in WebSockets, c \in ClientIds : Connect(w, c)
    \/ \E w \in WebSockets : ClientDisconnect(w)
    \/ \E w \in WebSockets, m \in Messages : ReceiveInvalid(w, m)
    \/ \E w \in WebSockets, m \in Messages : ReceiveOther(w, m)
    \/ \E w \in WebSockets, m \in Messages : ReceiveShopping(w, m)
    \/ \E w \in WebSockets, m \in Messages : ReceiveVoice(w, m)
    \/ \E w \in WebSockets : RunOpens(w)
    \/ \E w \in WebSockets : RunRaises(w)
    \/ \E w \in WebSockets : OtherEvent(w)
    \/ \E w \in WebSockets : AgentMessage(w)
    \/ \E w \in WebSockets : StreamEnds(w)
    \/ \E w \in WebSockets : SessionRaises(w)
    \/ \E w \in WebSockets : Send(w)
    \/ \E w \in WebSockets : SendFails(w)
    \/ \E d \in ItemData : add_shopping_item(d)
    \/ get_shopping_list
    \/ health_check

----------------------------------------------------------------------------
(* realtime.py                                                             *)
(* Three threads: the asyncio event loop (main, sender, receiver; a task   *)
(* runs until its next await), the audio thread that runs the capture      *)
(* callback, and the executor thread that runs audio_stream.               *)

\* queue.Queue(maxsize=20)
MicQueueMax == 20
\* frames are numbered in capture order, modulo NumFrameIds
NumFrameIds == 3

\* no event dispatched yet
NoEvent == [type |-> "none", b64 |-> FALSE, played |-> FALSE]

RtInit ==
    /\ mic_q = <<>>
    /\ stop_evt = FALSE
    /\ ws_open = TRUE
    /\ sender_pc = "start"
    /\ chunk = -1
    /\ receiver_pc = "recv"
    /\ main_pc = "gather"
    /\ cb_pc = "idle"
    /\ cb_frame = -1
    /\ mic_pc = "wait"
    /\ captured = 0
    /\ last_append = -1
    /\ player_open = TRUE
    /\ fatal_seen = FALSE
    /\ rx_last = NoEvent
    /\ session_updates = 1

RtOnly == UNCHANGED <<cliVars, backendVars, runVars, vdVars>>

\* the event-loop thread is not inside a synchronous section. sender() has
\* no await from its `while` test through mic_q.get(timeout=0.2), a blocking
\* call made on the event-loop thread, to the call of ws.send, which hands
\* the message to an open connection before it first suspends; main() has
\* none from the return of gather to the end of its finally clause.
LoopFree == sender_pc \notin {"get", "send"} /\ main_pc # "finally"

\* sender is suspended at an await (or not yet started)
SenderAwaiting == sender_pc \in {"start", "sleep", "backoff"}

\* q.put(pcm16) with no timeout returns only once the queue has a free slot
q_put_ready(q) == Len(q) < MicQueueMax

\* callback(): the stop_evt test, then the PCM16 conversion; q.put is next
CallbackEnter ==
    /\ cb_pc = "idle"
    /\ mic_pc \in {"wait", "exit"}
    /\ IF stop_evt
       THEN /\ cb_pc' = "stopped"
            /\ UNCHANGED <<cb_frame, captured>>
       ELSE /\ cb_pc' = "put"
            /\ cb_frame' = captured
            /\ captured' = (captured + 1) % NumFrameIds
    /\ UNCHANGED <<mic_q, stop_evt, ws_open, sender_pc, chunk, receiver_pc, main_pc,
                   mic_pc, last_append, player_open, fatal_seen, rx_last, session_updates>>
    /\ RtOnly

\* callback(): q.put(pcm16) returns
CallbackPut ==
    /\ cb_pc = "put"
    /\ q_put_ready(mic_q)
    /\ mic_q' = Append(mic_q, cb_frame)
    /\ cb_pc' = "idle"
    /\ cb_frame' = -1
    /\ UNCHANGED <<stop_evt, ws_open, sender_pc, chunk, receiver_pc, main_pc,
                   mic_pc, captured, last_append, player_open, fatal_seen, rx_last, session_updates>>
    /\ RtOnly

\* audio_stream(): stop_evt.wait() returns
MicWake ==
    /\ mic_pc = "wait"
    /\ stop_evt
    /\ mic_pc' = "exit"
    /\ UNCHANGED <<mic_q, stop_evt, ws_open, sender_pc, chunk, receiver_pc, main_pc,
                   cb_pc, cb_frame, captured, last_append, player_open, fatal_seen, rx_last, session_updates>>
    /\ RtOnly

\* audio_stream(): leaving `with sd.InputStream(...)` stops and closes the
\* stream, which waits for a callback in progress to return
MicExit ==
    /\ mic_pc = "exit"
    /\ cb_pc \in {"idle", "stopped"}
    /\ mic_pc' = "done"
    /\ UNCHANGED <<mic_q, stop_evt, ws_open, sender_pc, chunk, receiver_pc, main_pc,
                   cb_pc, cb_frame, captured, last_append, player_open, fatal_seen, rx_last, session_updates>>
    /\ RtOnly

\* a faulty variant of SenderLoop: the loop does not test stop_evt
SenderLoop_ignores_stop ==
    /\ SenderAwaiting
    /\ LoopFree
    /\ main_pc # "done"
    /\ sender_pc' = "get"
    /\ UNCHANGED <<mic_q, stop_evt, ws_open, chunk, receiver_pc, main_pc,
                   cb_pc, cb_frame, mic_pc, captured, last_append, player_open,
                   fatal_seen, rx_last, session_updates>>
    /\ RtOnly

\* sender(): resumed; `while not stop_evt.is_set()` and the call of mic_q.get
SenderLoop ==
    /\ SenderAwaiting
    /\ LoopFree
    /\ main_pc # "done"
    /\ sender_pc' = IF stop_evt THEN "done" ELSE "get"
    /\ UNCHANGED <<mic_q, stop_evt, ws_open, chunk, receiver_pc, main_pc,
                   cb_pc, cb_frame, mic_pc, captured, last_append, player_open, fatal_seen, rx_last, session_updates>>
    /\ RtOnly

\* a faulty variant of SenderGet: the chunk is read and left in the queue
SenderGet_peeks ==
    /\ sender_pc = "get"
    /\ mic_q # <<>>
    /\ chunk' = Head(mic_q)
    /\ sender_pc' = "send"
    /\ UNCHANGED <<mic_q, stop_evt, ws_open, receiver_pc, main_pc,
                   cb_pc, cb_frame, mic_pc, captured, last_append, player_open,
                   fatal_seen, rx_last, session_updates>>
    /\ RtOnly

\* sender(): mic_q.get(timeout=0.2) returns a chunk
SenderGet ==
    /\ sender_pc = "get"
    /\ mic_q # <<>>
    /\ chunk' = Head(mic_q)
    /\ mic_q' = Tail(mic_q)
    /\ sender_pc' = "send"
    /\ UNCHANGED <<stop_evt, ws_open, receiver_pc, main_pc,
                   cb_pc, cb_frame, mic_pc, captured, last_append, player_open, fatal_seen, rx_last, session_updates>>
    /\ RtOnly

\* a faulty variant of SenderGetTimeout: mic_q.get() without a timeout, which
\* returns only with a chunk
SenderGetTimeout_blocks ==
    /\ sender_pc = "get"
    /\ mic_q = <<>>
    /\ FALSE
    /\ UNCHANGED vars

\* sender(): mic_q.get times out (queue.Empty); await asyncio.sleep(0.01)
SenderGetTimeout ==
    /\ sender_pc = "get"
    /\ mic_q = <<>>
    /\ sender_pc' = "sleep"
    /\ UNCHANGED <<mic_q, stop_evt, ws_open, chunk, receiver_pc, main_pc,
                   cb_pc, cb_frame, mic_pc, captured, last_append, player_open, fatal_seen, rx_last, session_updates>>
    /\ RtOnly

\* sender(): ws.send(input_audio_buffer.append) is called; on a closed
\* connection it raises, `except Exception` prints and the task ends; on an
\* open one the message is handed over and the task then awaits (the rest of
\* ws.send, asyncio.sleep)
SenderSend ==
    /\ sender_pc = "send"
    /\ main_pc # "done"
    /\ IF ws_open
       THEN /\ last_append' = chunk
            /\ sender_pc' = "backoff"
       ELSE /\ sender_pc' = "done"
            /\ UNCHANGED last_append
    /\ chunk' = -1
    /\ UNCHANGED <<mic_q, stop_evt, ws_open, receiver_pc, main_pc,
                   cb_pc, cb_frame, mic_pc, captured, player_open, fatal_seen, rx_last, session_updates>>
    /\ RtOnly

\* the event types receiver() dispatches on, and one it does not know
EventTypes ==
    {"response.audio.delta", "response.audio.done",
     "conversation.item.input_audio_transcription.completed",
     "response.output_text.delta", "response.output_text.done", "error",
     "input_audio_buffer.speech_started"}

\* a faulty variant of ReceiverEvent: a type with no branch of its own raises
ReceiverEvent_strict(t) ==
    /\ receiver_pc = "recv"
    /\ LoopFree
    /\ ws_open
    /\ receiver_pc' = IF t = "input_audio_buffer.speech_started" THEN "raised" ELSE "recv"
    /\ rx_last' = [type |-> t, b64 |-> FALSE, played |-> FALSE]
    /\ UNCHANGED <<mic_q, stop_evt, ws_open, sender_pc, chunk, main_pc,
                   cb_pc, cb_frame, mic_pc, captured, last_append, player_open,
                   fatal_seen, session_updates>>
    /\ RtOnly

\* receiver(): one message of `async for raw in ws`, dispatched. b64: the
\* event's "delta" field is not empty (`if b64:` guards play_pcm16)
ReceiverEvent(t) ==
    /\ receiver_pc = "recv"
    /\ LoopFree
    /\ ws_open
    /\ \E b64 \in (IF t = "response.audio.delta" THEN BOOLEAN ELSE {FALSE}) :
          /\ receiver_pc' = IF b64 /\ ~player_open THEN "raised" ELSE "recv"
          /\ rx_last' = [type |-> t, b64 |-> b64, played |-> b64 /\ player_open]
    /\ \E fatal \in BOOLEAN : fatal_seen' = (fatal_seen \/ (t = "error" /\ fatal))
    /\ UNCHANGED <<mic_q, stop_evt, ws_open, sender_pc, chunk, main_pc,
                   cb_pc, cb_frame, mic_pc, captured, last_append, player_open,
                   session_updates>>
    /\ RtOnly

\* receiver(): the body raises something other than ConnectionClosed
\* (json.loads, base64.b64decode, the output stream)
ReceiverRaises ==
    /\ receiver_pc = "recv"
    /\ LoopFree
    /\ ws_open
    /\ receiver_pc' = "raised"
    /\ UNCHANGED <<mic_q, stop_evt, ws_open, sender_pc, chunk, main_pc,
                   cb_pc, cb_frame, mic_pc, captured, last_append, player_open, fatal_seen, rx_last, session_updates>>
    /\ RtOnly

\* receiver(): the connection is closed; the iteration ends
ReceiverClosed ==
    /\ receiver_pc = "recv"
    /\ LoopFree
    /\ ~ws_open
    /\ receiver_pc' = "done"
    /\ UNCHANGED <<mic_q, stop_evt, ws_open, sender_pc, chunk, main_pc,
                   cb_pc, cb_frame, mic_pc, captured, last_append, player_open, fatal_seen, rx_last, session_updates>>
    /\ RtOnly

\* the server or the network closes the connection
WsClosed ==
    /\ ws_open
    /\ ws_open' = FALSE
    /\ UNCHANGED <<mic_q, stop_evt, sender_pc, chunk, receiver_pc, main_pc,
                   cb_pc, cb_frame, mic_pc, captured, last_append, player_open, fatal_seen, rx_last, session_updates>>
    /\ RtOnly

\* main(): asyncio.gather returns (both tasks ended) or raises (receiver raised)
GatherEnds ==
    /\ main_pc = "gather"
    /\ LoopFree
    /\ \/ sender_pc = "done" /\ receiver_pc = "done"
       \/ receiver_pc = "raised"
    /\ main_pc' = "finally"
    /\ UNCHANGED <<mic_q, stop_evt, ws_open, sender_pc, chunk, receiver_pc,
                   cb_pc, cb_frame, mic_pc, captured, last_append, player_open, fatal_seen, rx_last, session_updates>>
    /\ RtOnly

\* Ctrl+C: asyncio.run cancels main(), and the gather cancels both tasks
Interrupt ==
    /\ main_pc = "gather"
    /\ LoopFree
    /\ sender_pc' = "done"
    /\ receiver_pc' = IF receiver_pc = "raised" THEN "raised" ELSE "done"
    /\ chunk' = -1
    /\ main_pc' = "finally"
    /\ UNCHANGED <<mic_q, stop_evt, ws_open,
                   cb_pc, cb_frame, mic_pc, captured, last_append, player_open, fatal_seen, rx_last, session_updates>>
    /\ RtOnly

\* main(): finally: stop_evt.set(); player.close()
Finally ==
    /\ main_pc = "finally"
    /\ stop_evt' = TRUE
    /\ player_open' = FALSE
    /\ main_pc' = "close_ws"
    /\ UNCHANGED <<mic_q, ws_open, sender_pc, chunk, receiver_pc,
                   cb_pc, cb_frame, mic_pc, captured, last_append, fatal_seen, rx_last, session_updates>>
    /\ RtOnly

\* main(): leaving `async with websockets.connect(...)` closes the connection;
\* then asyncio.run cancels the tasks still pending
CloseWs ==
    /\ main_pc = "close_ws"
    /\ LoopFree
    /\ ws_open' = FALSE
    /\ main_pc' = "done"
    /\ sender_pc' = "done"
    /\ chunk' = -1
    /\ UNCHANGED <<mic_q, stop_evt, receiver_pc,
                   cb_pc, cb_frame, mic_pc, captured, last_append, player_open, fatal_seen, rx_last, session_updates>>
    /\ RtOnly

RtNext ==
    \/ CallbackEnter
    \/ CallbackPut
    \/ MicWake
    \/ MicExit
    \/ SenderLoop
    \/ SenderGet
    \/ SenderGetTimeout
    \/ SenderSend
    \/ \E t \in EventTypes : ReceiverEvent(t)
    \/ ReceiverRaises
    \/ ReceiverClosed
    \/ WsClosed
    \/ GatherEnds
    \/ Interrupt
    \/ Finally
    \/ CloseWs

----------------------------------------------------------------------------
(* realtime.py: main() up to the creation of the tasks                     *)

\* main() is entered: nothing is connected, captured or created yet
RtStartInit ==
    /\ mic_q = <<>>
    /\ stop_evt = FALSE
    /\ ws_open = FALSE
    /\ sender_pc = "unborn"
    /\ chunk = -1
    /\ receiver_pc = "unborn"
    /\ main_pc = "connect"
    /\ cb_pc = "idle"
    /\ cb_frame = -1
    /\ mic_pc = "unborn"
    /\ captured = 0
    /\ last_append = -1
    /\ player_open = FALSE
    /\ fatal_seen = FALSE
    /\ rx_last = NoEvent
    /\ session_updates = 0

\* `async with websockets.connect(...) as ws`: connected, or the connect raises
\* and main() ends
MainConnect ==
    /\ main_pc = "connect"
    /\ \E connected \in BOOLEAN :
          IF connected
          THEN ws_open' = TRUE /\ main_pc' = "configure"
          ELSE ws_open' = FALSE /\ main_pc' = "done"
    /\ UNCHANGED <<mic_q, stop_evt, sender_pc, chunk, receiver_pc, cb_pc,
                   cb_frame, mic_pc, captured, last_append, player_open,
                   fatal_seen, rx_last, session_updates>>
    /\ RtOnly

\* a faulty variant of MainConfigure: no session.update is sent
MainConfigure_skips ==
    /\ main_pc = "configure"
    /\ main_pc' = "greet"
    /\ UNCHANGED <<mic_q, stop_evt, ws_open, sender_pc, chunk, receiver_pc, cb_pc,
                   cb_frame, mic_pc, captured, last_append, player_open,
                   fatal_seen, rx_last, session_updates>>
    /\ RtOnly

\* await ws.send(session.update): sent, or the connection is closed, the send
\* raises and main() ends
MainConfigure ==
    /\ main_pc = "configure"
    /\ IF ws_open
       THEN session_updates' = session_updates + 1 /\ main_pc' = "greet"
       ELSE session_updates' = session_updates /\ main_pc' = "done"
    /\ UNCHANGED <<mic_q, stop_evt, ws_open, sender_pc, chunk, receiver_pc, cb_pc,
                   cb_frame, mic_pc, captured, last_append, player_open,
                   fatal_seen, rx_last>>
    /\ RtOnly

\* await ws.send(response.create): sent, or the send raises and main() ends
MainGreet ==
    /\ main_pc = "greet"
    /\ main_pc' = IF ws_open THEN "capture" ELSE "done"
    /\ UNCHANGED <<mic_q, stop_evt, ws_open, sender_pc, chunk, receiver_pc, cb_pc,
                   cb_frame, mic_pc, captured, last_append, player_open,
                   fatal_seen, rx_last, session_updates>>
    /\ RtOnly

\* mic_q, stop_evt, and loop.run_in_executor(None, audio_stream, mic_q, stop_evt):
\* capture starts
MainCapture ==
    /\ main_pc = "capture"
    /\ mic_q' = <<>>
    /\ stop_evt' = FALSE
    /\ mic_pc' = "wait"
    /\ main_pc' = "player"
    /\ UNCHANGED <<ws_open, sender_pc, chunk, receiver_pc, cb_pc, cb_frame,
                   captured, last_append, player_open, fatal_seen, rx_last,
                   session_updates>>
    /\ RtOnly

\* player = Player() and the two create_task calls; if the output stream
\* cannot be opened Player() raises, main() ends before its try block and the
\* connection is closed on the way out
MainTasks ==
    /\ main_pc = "player"
    /\ \E opened \in BOOLEAN :
          IF opened
          THEN /\ player_open' = TRUE
               /\ sender_pc' = "start"
               /\ receiver_pc' = "recv"
               /\ main_pc' = "gather"
               /\ UNCHANGED ws_open
          ELSE /\ ws_open' = FALSE
               /\ main_pc' = "done"
               /\ UNCHANGED <<player_open, sender_pc, receiver_pc>>
    /\ UNCHANGED <<mic_q, stop_evt, chunk, cb_pc, cb_frame, mic_pc, captured,
                   last_append, fatal_seen, rx_last, session_updates>>
    /\ RtOnly

RtMainNext ==
    \/ MainConnect
    \/ MainConfigure
    \/ MainGreet
    \/ MainCapture
    \/ MainTasks
    \/ RtNext

----------------------------------------------------------------------------
(* voice_duplex_chat.py                                                    *)

\* recordings are numbered in the order of the record_audio calls, modulo
\* NumRecordings
NumRecordings == 3
\* frames waiting in input_queue
MaxQueued == 2
\* frames one record_audio call collects
MaxFrames == 2
\* audio events collected into response_audio by one chat_with_agent call
MaxChunks == 2
\* `len(full_transcript) > 10`
TranscriptEnough == 10
\* `if event_count >= 20: break`
DebugEventMax == 20
\* len(delta) of the transcript deltas the agent sends
DeltaLens == {4, 7}

\* self.CHUNK, self.CHANNELS
CHUNK == 1024
CHANNELS == 1
\* silences audio_output_callback returns during one play_audio call
MaxSilence == 1

RECURSIVE play_chunks(_, _)
\* play_audio: the chunks `for i in range(0, len(audio_data), chunk_size)`
\* puts, from index i on. A chunk is audio_data[i:i + chunk_size], `data`
\* bytes of it, followed by `pad` zero bytes
play_chunks(len, i) ==
    LET chunk_size == CHUNK * CHANNELS * 2
        sliced == IF len - i < chunk_size THEN len - i ELSE chunk_size
    IN  IF i >= len THEN <<>>
        ELSE <<[offset |-> i, data |-> sliced,
                pad |-> IF sliced < chunk_size THEN chunk_size - sliced ELSE 0]>>
             \o play_chunks(len, i + chunk_size)

\* how recognizer.recognize_google can end: sr.UnknownValueError,
\* sr.RequestError, the empty string, a text
RecognitionOutcomes == {"UnknownValueError", "RequestError", "empty", "text"}

\* audio_to_text: the value returned
audio_to_text(outcome) ==
    CASE outcome \in {"UnknownValueError", "RequestError"} -> "None"
      [] outcome = "empty" -> ""
      [] OTHER -> "hello"

\* Python's `not user_text` for None or a str
Not(text) == text \in {"None", ""}

\* nothing returned yet
NoResult == [response_audio |-> -1, transcript |-> "-"]

VdInit ==
    /\ vd_pc = "setup"
    /\ vd_streams = FALSE
    /\ vd_rec = 0
    /\ vd_audio = -1
    /\ vd_recognized = FALSE
    /\ vd_outcome = "none"
    /\ vd_text = "None"
    /\ vd_sessions = 0
    /\ vd_open = FALSE
    /\ vd_transcript = 0
    /\ vd_chunks = 0
    /\ vd_events = 0
    /\ vd_result = NoResult
    /\ vd_recording = FALSE
    /\ vd_input_queue = <<>>
    /\ vd_frames = <<>>
    /\ vd_in_data = -1
    /\ vd_playing = FALSE
    /\ vd_output_queue = <<>>
    /\ vd_to_play = <<>>
    /\ vd_device = <<>>


\* main(): chat.setup_agent() raises ValueError without the credential;
\* `except Exception` prints and calls cleanup()
VdSetup ==
    /\ vd_pc = "setup"
    /\ vd_pc' = IF openai_api_key THEN "streams" ELSE "done"
    /\ UNCHANGED <<vd_streams, vd_rec, vd_audio, vd_recognized, vd_outcome, vd_text,
                   vd_sessions, vd_open, vd_transcript, vd_chunks, vd_events, vd_result>>
    /\ UNCHANGED <<cliVars, backendVars, rtVars, runVars, auVars>>

\* main(): chat.start_audio_streams(), then voice_conversation_loop() is entered
VdStartStreams ==
    /\ vd_pc = "streams"
    /\ vd_streams' = TRUE
    /\ vd_pc' = "record"
    /\ UNCHANGED <<vd_rec, vd_audio, vd_recognized, vd_outcome, vd_text,
                   vd_sessions, vd_open, vd_transcript, vd_chunks, vd_events, vd_result>>
    /\ UNCHANGED <<cliVars, backendVars, rtVars, runVars, auVars>>

\* record_audio is called: self.recording = True, frames = []
VdRecordStart ==
    /\ vd_pc = "record"
    /\ vd_recording' = TRUE
    /\ vd_frames' = <<>>
    /\ vd_pc' = "recording"
    /\ UNCHANGED <<vd_streams, vd_rec, vd_audio, vd_recognized, vd_outcome, vd_text,
                   vd_sessions, vd_open, vd_transcript, vd_chunks, vd_events, vd_result,
                   vd_input_queue, vd_in_data, vd_playing, vd_output_queue, vd_to_play,
                   vd_device>>
    /\ UNCHANGED <<cliVars, backendVars, rtVars, runVars>>

\* one pass of record_audio's while loop with a frame waiting:
\* `if not self.input_queue.empty(): frames.append(self.input_queue.get())`
VdPoll ==
    /\ vd_pc = "recording"
    /\ vd_input_queue # <<>>
    /\ Len(vd_frames) < MaxFrames
    /\ vd_frames' = Append(vd_frames, Head(vd_input_queue))
    /\ vd_input_queue' = Tail(vd_input_queue)
    /\ UNCHANGED <<vd_pc, vd_streams, vd_rec, vd_audio, vd_recognized, vd_outcome, vd_text,
                   vd_sessions, vd_open, vd_transcript, vd_chunks, vd_events, vd_result,
                   vd_recording, vd_in_data, vd_playing, vd_output_queue, vd_to_play,
                   vd_device>>
    /\ UNCHANGED <<cliVars, backendVars, rtVars, runVars>>

\* the duration is over: self.recording = False and record_audio returns
\* b''.join(frames). `if len(user_audio) > 1000` guards the call of
\* chat_with_agent (one frame is CHUNK samples of 2 bytes), else "No voice
\* detected, try again..."
VdRecord ==
    /\ vd_pc = "recording"
    /\ vd_recording' = FALSE
    /\ vd_pc' = IF Len(vd_frames) > 0 THEN "recognize" ELSE "record"
    /\ vd_frames' = <<>>
    /\ vd_audio' = vd_rec
    /\ vd_rec' = (vd_rec + 1) % NumRecordings
    /\ vd_recognized' = FALSE
    /\ UNCHANGED <<vd_streams, vd_outcome, vd_text,
                   vd_sessions, vd_open, vd_transcript, vd_chunks, vd_events, vd_result,
                   vd_input_queue, vd_in_data, vd_playing, vd_output_queue, vd_to_play,
                   vd_device>>
    /\ UNCHANGED <<cliVars, backendVars, rtVars, runVars>>

\* audio_input_callback is called with a frame and finds self.recording set
\* (otherwise it returns at once)
VdInputCallback ==
    /\ vd_streams
    /\ vd_recording
    /\ vd_in_data = -1
    /\ Len(vd_input_queue) < MaxQueued
    /\ vd_in_data' = vd_rec
    /\ UNCHANGED <<vd_pc, vd_streams, vd_rec, vd_audio, vd_recognized, vd_outcome, vd_text,
                   vd_sessions, vd_open, vd_transcript, vd_chunks, vd_events, vd_result,
                   vd_recording, vd_input_queue, vd_frames, vd_playing, vd_output_queue,
                   vd_to_play, vd_device>>
    /\ UNCHANGED <<cliVars, backendVars, rtVars, runVars>>

\* audio_input_callback: self.input_queue.put(in_data)
VdInputPut ==
    /\ vd_in_data # -1
    /\ vd_input_queue' = Append(vd_input_queue, vd_in_data)
    /\ vd_in_data' = -1
    /\ UNCHANGED <<vd_pc, vd_streams, vd_rec, vd_audio, vd_recognized, vd_outcome, vd_text,
                   vd_sessions, vd_open, vd_transcript, vd_chunks, vd_events, vd_result,
                   vd_recording, vd_frames, vd_playing, vd_output_queue, vd_to_play,
                   vd_device>>
    /\ UNCHANGED <<cliVars, backendVars, rtVars, runVars>>

\* a faulty variant of VdRecognize: on no text the same audio is recognised again
VdRecognize_retries ==
    /\ vd_pc = "recognize"
    /\ \E outcome \in RecognitionOutcomes :
          /\ vd_outcome' = outcome
          /\ vd_text' = audio_to_text(outcome)
          /\ vd_pc' = IF Not(audio_to_text(outcome)) THEN "recognize" ELSE "run"
    /\ vd_recognized' = TRUE
    /\ vd_sessions' = 0
    /\ UNCHANGED <<vd_streams, vd_rec, vd_audio, vd_open, vd_transcript, vd_chunks,
                   vd_events, vd_result>>
    /\ UNCHANGED <<cliVars, backendVars, rtVars, runVars, auVars>>

\* chat_with_agent: user_text = self.audio_to_text(user_audio);
\* `if not user_text: return None, "Could not understand audio"`
VdRecognize ==
    /\ vd_pc = "recognize"
    /\ \E outcome \in RecognitionOutcomes :
          /\ vd_outcome' = outcome
          /\ vd_text' = audio_to_text(outcome)
          /\ IF Not(audio_to_text(outcome))
             THEN /\ vd_result' = [response_audio |-> -1,
                                   transcript |-> "Could not understand audio"]
                  /\ vd_pc' = "returned"
             ELSE /\ vd_result' = vd_result
                  /\ vd_pc' = "run"
    /\ vd_recognized' = TRUE
    /\ vd_sessions' = 0
    /\ UNCHANGED <<vd_streams, vd_rec, vd_audio, vd_open, vd_transcript, vd_chunks,
                   vd_events>>
    /\ UNCHANGED <<cliVars, backendVars, rtVars, runVars, auVars>>

\* `async with await self.runner.run() as session` is entered and
\* session.send_message(user_text) returns
VdRunOpens ==
    /\ vd_pc = "run"
    /\ vd_open' = TRUE
    /\ vd_sessions' = vd_sessions + 1
    /\ vd_transcript' = 0
    /\ vd_chunks' = 0
    /\ vd_pc' = "session"
    /\ UNCHANGED <<vd_streams, vd_rec, vd_audio, vd_recognized, vd_outcome, vd_text,
                   vd_events, vd_result>>
    /\ UNCHANGED <<cliVars, backendVars, rtVars, runVars, auVars>>

\* an exception leaves chat_with_agent and voice_conversation_loop, whose
\* finally calls cleanup(); main()'s `except Exception` prints
VdRaises ==
    /\ vd_pc \in {"run", "session", "debug_run", "debug_session"}
    /\ vd_open' = FALSE
    /\ vd_streams' = FALSE
    /\ vd_pc' = "done"
    /\ UNCHANGED <<vd_rec, vd_audio, vd_recognized, vd_outcome, vd_text, vd_sessions,
                   vd_transcript, vd_chunks, vd_events, vd_result>>
    /\ UNCHANGED <<cliVars, backendVars, rtVars, runVars, auVars>>

\* the collection is over (break, or the event stream ended): the session
\* is closed; with no audio collected the debug session comes next
VdCollected(transcript, chunks) ==
    /\ vd_open' = FALSE
    /\ IF chunks = 0
       THEN vd_pc' = "debug_run" /\ vd_result' = vd_result
       ELSE /\ vd_pc' = "returned"
            /\ vd_result' = [response_audio |-> chunks, transcript |-> "transcript"]

\* one event of `async for event in session`. kind: a transcript delta (as a
\* raw_model_event or directly), an audio event, or another event; then
\* `if full_transcript and len(full_transcript) > 10:` sleep and break
VdEvent(kind, len) ==
    /\ vd_pc = "session"
    /\ kind = "audio" => vd_chunks < MaxChunks
    /\ LET transcript == IF kind = "transcript_delta" THEN vd_transcript + len
                         ELSE vd_transcript
           chunks == IF kind = "audio" THEN vd_chunks + 1 ELSE vd_chunks
       IN  /\ vd_transcript' = transcript
           /\ vd_chunks' = chunks
           /\ IF transcript > TranscriptEnough
              THEN VdCollected(transcript, chunks)
              ELSE UNCHANGED <<vd_pc, vd_open, vd_result>>
    /\ UNCHANGED <<vd_streams, vd_rec, vd_audio, vd_recognized, vd_outcome, vd_text,
                   vd_sessions, vd_events>>
    /\ UNCHANGED <<cliVars, backendVars, rtVars, runVars, auVars>>

\* the session's event stream ends
VdStreamEnds ==
    /\ vd_pc = "session"
    /\ VdCollected(vd_transcript, vd_chunks)
    /\ UNCHANGED <<vd_streams, vd_rec, vd_audio, vd_recognized, vd_outcome, vd_text,
                   vd_sessions, vd_transcript, vd_chunks, vd_events>>
    /\ UNCHANGED <<cliVars, backendVars, rtVars, runVars, auVars>>

\* `async with await self.runner.run() as debug_session` is entered and the
\* debug message is sent
VdDebugOpens ==
    /\ vd_pc = "debug_run"
    /\ vd_open' = TRUE
    /\ vd_sessions' = vd_sessions + 1
    /\ vd_events' = 0
    /\ vd_pc' = "debug_session"
    /\ UNCHANGED <<vd_streams, vd_rec, vd_audio, vd_recognized, vd_outcome, vd_text,
                   vd_transcript, vd_chunks, vd_result>>
    /\ UNCHANGED <<cliVars, backendVars, rtVars, runVars, auVars>>

\* chat_with_agent returns (response_audio, full_transcript) with no audio
VdReturnsNoAudio ==
    /\ vd_open' = FALSE
    /\ vd_pc' = "returned"
    /\ vd_result' = [response_audio |-> 0, transcript |-> "transcript"]

\* one event of the debug session; `if event_count >= 20: break`
VdDebugEvent ==
    /\ vd_pc = "debug_session"
    /\ vd_events' = vd_events + 1
    /\ IF vd_events + 1 >= DebugEventMax
       THEN VdReturnsNoAudio
       ELSE UNCHANGED <<vd_pc, vd_open, vd_result>>
    /\ UNCHANGED <<vd_streams, vd_rec, vd_audio, vd_recognized, vd_outcome, vd_text,
                   vd_sessions, vd_transcript, vd_chunks>>
    /\ UNCHANGED <<cliVars, backendVars, rtVars, runVars, auVars>>

\* the debug session's event stream ends
VdDebugEnds ==
    /\ vd_pc = "debug_session"
    /\ VdReturnsNoAudio
    /\ UNCHANGED <<vd_streams, vd_rec, vd_audio, vd_recognized, vd_outcome, vd_text,
                   vd_sessions, vd_transcript, vd_chunks, vd_events>>
    /\ UNCHANGED <<cliVars, backendVars, rtVars, runVars, auVars>>

\* voice_conversation_loop: `if response_audio:` play_audio, else "No audio
\* response from agent"; then the next iteration. chat_with_agent has
\* returned: its locals full_transcript, response_audio, event_count are gone
\* play_audio is entered with the response audio, some number of bytes:
\* self.playing = True
VdAfterChat ==
    /\ vd_pc = "returned"
    /\ IF vd_result.response_audio > 0
       THEN /\ vd_pc' = "play"
            /\ vd_playing' = TRUE
            /\ \E len \in {1, CHUNK * CHANNELS * 2, CHUNK * CHANNELS * 2 + 1,
                            CHUNK * CHANNELS * 4 + 1} :
                  vd_to_play' = play_chunks(len, 0)
       ELSE /\ vd_pc' = "record"
            /\ UNCHANGED <<vd_playing, vd_to_play>>
    /\ vd_device' = <<>>
    /\ vd_transcript' = 0
    /\ vd_chunks' = 0
    /\ vd_events' = 0
    /\ UNCHANGED <<vd_streams, vd_rec, vd_audio, vd_recognized, vd_outcome, vd_text,
                   vd_sessions, vd_open, vd_result,
                   vd_recording, vd_input_queue, vd_frames, vd_in_data, vd_output_queue>>
    /\ UNCHANGED <<cliVars, backendVars, rtVars, runVars>>

\* play_audio: one pass of the for loop, self.output_queue.put(chunk)
VdPlayPut ==
    /\ vd_pc = "play"
    /\ vd_to_play # <<>>
    /\ vd_output_queue' = Append(vd_output_queue, Head(vd_to_play))
    /\ vd_to_play' = Tail(vd_to_play)
    /\ UNCHANGED <<vd_pc, vd_streams, vd_rec, vd_audio, vd_recognized, vd_outcome, vd_text,
                   vd_sessions, vd_open, vd_transcript, vd_chunks, vd_events, vd_result,
                   vd_recording, vd_input_queue, vd_frames, vd_in_data, vd_playing,
                   vd_device>>
    /\ UNCHANGED <<cliVars, backendVars, rtVars, runVars>>

\* a faulty variant of VdPlayed: play_audio returns when its for loop is over
VdPlayed_early ==
    /\ vd_pc = "play"
    /\ vd_to_play = <<>>
    /\ vd_playing' = FALSE
    /\ vd_device' = <<>>
    /\ vd_pc' = "record"
    /\ UNCHANGED <<vd_streams, vd_rec, vd_audio, vd_recognized, vd_outcome, vd_text,
                   vd_sessions, vd_open, vd_transcript, vd_chunks, vd_events, vd_result,
                   vd_recording, vd_input_queue, vd_frames, vd_in_data, vd_output_queue,
                   vd_to_play>>
    /\ UNCHANGED <<cliVars, backendVars, rtVars, runVars>>

\* play_audio: `while not self.output_queue.empty()` is over,
\* self.playing = False, return; the next iteration of the conversation loop
VdPlayed ==
    /\ vd_pc = "play"
    /\ vd_to_play = <<>>
    /\ vd_output_queue = <<>>
    /\ vd_playing' = FALSE
    /\ vd_device' = <<>>
    /\ vd_pc' = "record"
    /\ UNCHANGED <<vd_streams, vd_rec, vd_audio, vd_recognized, vd_outcome, vd_text,
                   vd_sessions, vd_open, vd_transcript, vd_chunks, vd_events, vd_result,
                   vd_recording, vd_input_queue, vd_frames, vd_in_data, vd_output_queue,
                   vd_to_play>>
    /\ UNCHANGED <<cliVars, backendVars, rtVars, runVars>>

\* audio_output_callback during play_audio: the next chunk of output_queue,
\* or frame_count * CHANNELS * 2 zero bytes when it is empty
VdOutputCallback ==
    /\ vd_streams
    /\ vd_playing
    /\ IF vd_output_queue # <<>>
       THEN /\ vd_device' = Append(vd_device, Head(vd_output_queue))
            /\ vd_output_queue' = Tail(vd_output_queue)
       ELSE /\ Cardinality({i \in 1..Len(vd_device) : vd_device[i].offset = -1}) < MaxSilence
            /\ vd_device' = Append(vd_device,
                   [offset |-> -1, data |-> 0, pad |-> CHUNK * CHANNELS * 2])
            /\ UNCHANGED vd_output_queue
    /\ UNCHANGED <<vd_pc, vd_streams, vd_rec, vd_audio, vd_recognized, vd_outcome, vd_text,
                   vd_sessions, vd_open, vd_transcript, vd_chunks, vd_events, vd_result,
                   vd_recording, vd_input_queue, vd_frames, vd_in_data, vd_playing,
                   vd_to_play>>
    /\ UNCHANGED <<cliVars, backendVars, rtVars, runVars>>

\* Ctrl+C in the conversation loop: "Ending conversation...", cleanup()
VdInterrupt ==
    /\ vd_pc \in {"record", "recording", "recognize", "run", "session", "debug_run",
                   "debug_session", "returned", "play"}
    /\ vd_open' = FALSE
    /\ vd_streams' = FALSE
    /\ vd_pc' = "done"
    /\ UNCHANGED <<vd_rec, vd_audio, vd_recognized, vd_outcome, vd_text, vd_sessions,
                   vd_transcript, vd_chunks, vd_events, vd_result>>
    /\ UNCHANGED <<cliVars, backendVars, rtVars, runVars, auVars>>

VdNext ==
    \/ VdSetup
    \/ VdStartStreams
    \/ VdRecordStart
    \/ VdPoll
    \/ VdRecord
    \/ VdInputCallback
    \/ VdInputPut
    \/ VdRecognize
    \/ VdRunOpens
    \/ VdRaises
    \/ \E kind \in {"transcript_delta", "audio", "other"}, len \in DeltaLens : VdEvent(kind, len)
    \/ VdStreamEnds
    \/ VdDebugOpens
    \/ VdDebugEvent
    \/ VdDebugEnds
    \/ VdAfterChat
    \/ VdPlayPut
    \/ VdPlayed
    \/ VdOutputCallback
    \/ VdInterrupt

----------------------------------------------------------------------------
(* Specifications                                                          *)

Init == CliInit /\ BackendInit /\ RtInit /\ RunInit /\ VdInit

\* the programs other than the backend run with the credential set
InitConfigured == Init /\ openai_api_key = TRUE

CliAddNext == CliAddItem /\ UNCHANGED <<backendVars, rtVars, runVars, vdVars>>

\* the CLI ShoppingList under add_item calls alone
SpecCliAdd == InitConfigured /\ [][CliAddNext]_vars

\* the backend: WebSocket handlers, HTTP endpoints, clients
SpecBackend == Init /\ [][BackendNext]_vars

\* realtime.py after the tasks were created
SpecRealtime == InitConfigured /\ [][RtNext]_vars

\* a blocking call on the event-loop thread returns: mic_q.get with a chunk
\* or at its timeout, ws.send with the message handed over or an exception
SpecRealtimeFair ==
    SpecRealtime /\ WF_vars(SenderGet \/ SenderGetTimeout) /\ WF_vars(SenderSend)

\* the state at the entry of realtime.py's main(), the credential set
InitRealtimeMain ==
    CliInit /\ BackendInit /\ openai_api_key = TRUE /\ RtStartInit /\ RunInit /\ VdInit

\* realtime.py from the entry of main()
SpecRealtimeMain == InitRealtimeMain /\ [][RtMainNext]_vars

\* voice_duplex_chat.py from the entry of main(), with or without the credential
SpecVoiceDuplex == Init /\ [][VdNext]_vars

\* the interactive loop of the CLI from the entry of run()
SpecCliRun == Init /\ [][RunNext]_vars

CliCommandsNext == CliNext /\ UNCHANGED <<backendVars, rtVars, runVars, vdVars>>

\* the CLI ShoppingList under all its methods and the prompt's commands
SpecCli == InitConfigured /\ [][CliCommandsNext]_vars

\* the two stores: a run of the CLI, or a run of the backend. The CLI runs
\* only with the credential set (ShoppingAssistant.run returns without it).
StoresNext ==
    \/ BackendInit /\ openai_api_key /\ CliCommandsNext
    \/ CliInit /\ BackendNext

SpecStores == Init /\ [][StoresNext]_vars

\* utterances given to keyword detection
MaxHeard == 2

\* user texts: "", "I need milk and bread", "MILK milk", "buttermilk",
\* "pineapple", "price", "Bread Eggs", "bananas", "pasta sauce", "oil", "Milk"
DetectTexts ==
    { <<>>, INeedMilkAndBread, MILK \o <<" ">> \o milk, butter \o milk,
      <<"p", "i", "n", "e">> \o apple, <<"p">> \o rice,
      <<"B", "r", "e", "a", "d", " ">> \o Eggs, bananas,
      pasta \o <<" ", "s", "a", "u", "c", "e">>, <<"o", "i", "l">>, Milk }

\* the same text reaches process_shopping_items of a CLI assistant and
\* process_shopping_from_response of the backend
Hear(text) ==
    /\ Len(heard) < MaxHeard
    /\ heard' = Append(heard, text)
    /\ cli_items' = process_shopping_items(cli_items, text)
    /\ shopping_list' = process_shopping_from_response(shopping_list, text)
    /\ UNCHANGED <<cli_calls, cli_before, cli_op, cli_out, cli_repeat>>
    /\ UNCHANGED <<openai_api_key, active_connections, agent_runners, pc, cid, data,
                   user_text, runner, sess, resp, next_runner, stale_runners>>
    /\ UNCHANGED <<rtVars, runVars, vdVars>>

DetectNext == \E text \in DetectTexts : Hear(text)

\* keyword detection of both programs, text after text
SpecDetect == InitConfigured /\ [][DetectNext]_vars

\* the "item" payloads of add requests: those of ItemData, and two whose
\* quantity is an int that is not positive
AddPayloads ==
    ItemData \cup
    { [has_name |-> TRUE, name |-> Eggs, quantity |-> 0,  category |-> "dairy", notes |-> ""],
      [has_name |-> TRUE, name |-> Milk, quantity |-> -1, category |-> "dairy", notes |-> ""] }

\* the frame {"type": "shopping_action", "action": "add_item", "item": d}
AddMessage(d) ==
    [raw |-> "object", type |-> "shopping_action", action |-> "add_item", text |-> <<>>,
     item |-> d]

\* the add operations: the facade's add_item on a WebSocket, POST
\* /api/shopping-list, and keyword detection (in the CLI through add_item)
AddsNext ==
    \/ \E w \in WebSockets, c \in ClientIds : Connect(w, c)
    \/ \E w \in WebSockets, d \in AddPayloads : ReceiveShopping(w, AddMessage(d))
    \/ \E w \in WebSockets : Send(w)
    \/ \E d \in AddPayloads : add_shopping_item(d)
    \/ \E text \in {Milk, INeedMilkAndBread} : Hear(text)

SpecAdds == InitConfigured /\ [][AddsNext]_vars

----------------------------------------------------------------------------
(* Properties: the CLI ShoppingList                                        *)

RECURSIVE SumAdded(_, _)
\* the sum of the quantities of the calls whose name lowercases to key
SumAdded(calls, key) ==
    IF calls = <<>> THEN 0
    ELSE (IF Lower(Head(calls).name) = key THEN Head(calls).quantity ELSE 0)
         + SumAdded(Tail(calls), key)

KeysAdded(calls) == {Lower(calls[i].name) : i \in 1..Len(calls)}

\* C1: after any sequence of add_item calls, the list holds exactly one entry
\* per distinct case-insensitive name added, and its quantity is the sum of
\* the quantities added under that name.
C1_OneEntryPerNameWithSum ==
    /\ \A k \in KeysAdded(cli_calls) :
         Cardinality({i \in 1..Len(cli_items) : Lower(cli_items[i].name) = k}) = 1
    /\ \A i \in 1..Len(cli_items) :
         /\ Lower(cli_items[i].name) \in KeysAdded(cli_calls)
         /\ cli_items[i].quantity = SumAdded(cli_calls, Lower(cli_items[i].name))

\* three calls with the same name in three casings, merged into one entry
C1_Witness ==
    /\ Len(cli_calls) = 3
    /\ {cli_calls[i].name : i \in 1..Len(cli_calls)} = {Milk, milk, MILK}
    /\ Len(cli_items) = 1
    /\ cli_items[1].quantity = 5

\* no entry of items has the name, compared in lower case
NoMatch(items, name) == \A i \in 1..Len(items) : Lower(items[i].name) # Lower(name)

\* C12: remove_item(name) with no entry matching name case-insensitively
\* leaves the entries and their order unchanged; a remove_item(name) right
\* after a remove_item(name) changes nothing; and the entries with other
\* names are all kept, in their relative order.
C12_RemoveAbsentIsNoOp ==
    [][\A n \in CliNames :
          (cli_op'.op = "remove_item" /\ cli_op'.name = n) =>
              /\ NoMatch(cli_items, n) => cli_items' = cli_items
              /\ (cli_op.op = "remove_item" /\ cli_op.name = n) => cli_items' = cli_items
              /\ \A i \in 1..Len(cli_items) :
                    Lower(cli_items[i].name) # Lower(n) =>
                        \E p \in 1..Len(cli_items') : cli_items'[p] = cli_items[i]
              /\ \A i, j \in 1..Len(cli_items) :
                    (/\ i < j
                     /\ Lower(cli_items[i].name) # Lower(n)
                     /\ Lower(cli_items[j].name) # Lower(n)) =>
                        \E p, q \in 1..Len(cli_items') :
                            /\ p < q
                            /\ cli_items'[p] = cli_items[i]
                            /\ cli_items'[q] = cli_items[j]]_vars

\* the second of two remove_item calls with the same name in a row has left a
\* list of two entries as it found it
C12_Witness ==
    /\ cli_op.op = "remove_item"
    /\ cli_repeat
    /\ Len(cli_items) = 2
    /\ cli_before = cli_items
    /\ NoMatch(cli_items, cli_op.name)

\* C13: add_item with a name that matches an existing entry case-insensitively
\* changes that entry's quantity by the quantity passed and nothing else: the
\* entry keeps its name as first spelled, its category, its notes and its
\* position, whatever category and notes the call passes, and every other
\* entry is unchanged. ("Milk", 1) then ("milk", 2) gives one "Milk" of 3.
C13_AddToExistingChangesOnlyQuantity ==
    [][\A k \in 1..Len(cli_items) :
          (cli_op'.op = "add_item" /\ Lower(cli_items[k].name) = Lower(cli_op'.name)) =>
              /\ Len(cli_items') = Len(cli_items)
              /\ \A i \in 1..Len(cli_items) : i # k => cli_items'[i] = cli_items[i]
              /\ cli_items'[k].name = cli_items[k].name
              /\ cli_items'[k].category = cli_items[k].category
              /\ cli_items'[k].notes = cli_items[k].notes
              /\ cli_items'[k].quantity = cli_items[k].quantity + cli_op'.quantity]_vars

\* add_item("milk", 2, "general", "organic") found ("Eggs", 1), ("Milk", 1,
\* "dairy", "") and left ("Eggs", 1), ("Milk", 3, "dairy", "")
C13_Witness ==
    /\ cli_op = [NoOp EXCEPT !.op = "add_item", !.name = milk, !.quantity = 2,
                             !.category = "general", !.notes = "organic"]
    /\ cli_before = <<cli_ShoppingItem(Eggs, 1, "dairy", ""),
                      cli_ShoppingItem(Milk, 1, "dairy", "")>>
    /\ cli_items = <<cli_ShoppingItem(Eggs, 1, "dairy", ""),
                     cli_ShoppingItem(Milk, 3, "dairy", "")>>

\* the index in items of the first entry of the category
FirstOfCategory(items, category) ==
    CHOOSE i \in 1..Len(items) :
        /\ items[i].category = category
        /\ \A j \in 1..(i - 1) : items[j].category # category

\* the entries of items in the category, in list order
OfCategory(items, category) ==
    LET In(item) == item.category = category
    IN  SelectSeq(items, In)

\* C16: display lists the categories in the order in which each first appears
\* in the list, lists within a category its items in list order, and shows
\* every item of the list in exactly one group.
C16_DisplayGroupsInFirstSeenOrder ==
    cli_op.op = "display" =>
        /\ \A g, h \in 1..Len(cli_out) :
              g # h => cli_out[g].category # cli_out[h].category
        /\ \A g \in 1..Len(cli_out) :
              /\ cli_out[g].items # <<>>
              /\ cli_out[g].items = OfCategory(cli_items, cli_out[g].category)
        /\ \A i \in 1..Len(cli_items) :
              \E g \in 1..Len(cli_out) : cli_out[g].category = cli_items[i].category
        /\ \A g, h \in 1..Len(cli_out) :
              g < h => FirstOfCategory(cli_items, cli_out[g].category)
                           < FirstOfCategory(cli_items, cli_out[h].category)

\* a list of three whose first and third entries share a category was
\* displayed as two groups, the first holding the first and third entries
C16_Witness ==
    /\ cli_op.op = "display"
    /\ Len(cli_items) = 3
    /\ Len(cli_out) = 2
    /\ cli_out[1].category = "general"
    /\ cli_out[1].items = <<cli_items[1], cli_items[3]>>
    /\ cli_out[2].items = <<cli_items[2]>>

----------------------------------------------------------------------------
(* Properties: the backend                                                 *)

\* C2: the backend shopping_list holds at most one item per case-insensitive
\* name, after any sequence of WebSocket add_item messages, HTTP POSTs and
\* keyword detections.
C2_AtMostOnePerName ==
    \A i, j \in 1..Len(shopping_list) :
        i # j => Lower(shopping_list[i].name) # Lower(shopping_list[j].name)

\* C5: at most one remote session opened through runner.run() is live per client_id.
C5_OneLiveSessionPerClient ==
    \A c \in ClientIds :
        Cardinality({w \in WebSockets : sess[w] # 0 /\ cid[w] = c}) <= 1

StaleRunnerIds == {p[2] : p \in stale_runners}

\* C6: when a handler ends, the runner stored for its client_id is removed;
\* a voice_input that then fetches a runner gets the one in the map, which is
\* never one that was mapped when a handler of that client ended; and a
\* session is only ever held by the handler that opened it, inside its
\* voice_input, so none survives into a later connection.
C6_FreshRunnerAfterDisconnect ==
    [][\A w \in WebSockets :
          /\ (pc[w] # "closed" /\ pc'[w] = "closed") => agent_runners'[cid[w]] = 0
          /\ (pc[w] = "receive" /\ pc'[w] = "run") =>
                /\ runner'[w] = agent_runners'[cid'[w]]
                /\ runner'[w] \notin StaleRunnerIds
          /\ sess'[w] # 0 => (pc'[w] = "session" /\ sess'[w] = runner'[w])]_vars

\* a voice_input of a client one of whose handlers ended earlier with a
\* runner in the map is being processed with another runner
C6_Witness ==
    \E w \in WebSockets, p \in stale_runners :
        /\ pc[w] = "session"
        /\ cid[w] = p[1]
        /\ runner[w] # p[2]
        /\ sess[w] = runner[w]

\* the frames whose processing fails locally: invalid JSON, JSON that is no
\* object, an add_item whose item data fails ShoppingItem validation
LocalFailure(m) ==
    \/ m.raw \in {"invalid_json", "array"}
    \/ /\ m.raw = "object"
       /\ m.type = "shopping_action"
       /\ m.action = "add_item"
       /\ ValidationError(m.item)

\* C7: a failure local to one request is answered with an error-typed
\* response and the connection stays open.
C7_LocalFailureAnswered ==
    \A w \in WebSockets :
        LocalFailure(data[w]) =>
            /\ pc[w] = "send"
            /\ resp[w].type = "error"
            /\ \E i \in 1..Len(active_connections) : active_connections[i] = w

\* a JSON object whose type is neither voice_input nor shopping_action
IsOther(m) == m.raw = "object" /\ m.type \notin {"voice_input", "shopping_action"}

\* C8: a JSON-object message of another (or no) type is answered with one echo
\* message carrying it; the connection, the shopping list and the runner map
\* are unchanged, and once the echo is sent the handler is receiving again.
C8_UnknownTypeEchoed ==
    [][\A w \in WebSockets :
          /\ (pc[w] = "receive" /\ IsOther(data'[w])) =>
                /\ pc'[w] = "send"
                /\ resp'[w] = [NoResponse EXCEPT !.type = "echo", !.data = data'[w]]
                /\ UNCHANGED <<active_connections, shopping_list, agent_runners>>
                /\ \E i \in 1..Len(active_connections) : active_connections[i] = w
          /\ (pc[w] = "send" /\ resp[w].type = "echo") =>
                /\ ENABLED Send(w)
                /\ pc'[w] = "closed" \/ \E i \in 1..Len(active_connections') :
                                            active_connections'[i] = w]_vars

\* the echo of a message without a type is about to be sent
C8_Witness ==
    \E w \in WebSockets :
        /\ pc[w] = "send"
        /\ resp[w].type = "echo"
        /\ resp[w].data.type = "none"
        /\ resp[w].data = data[w]

\* a shopping_action whose action is none of add_item, get_list, clear_list
UnknownAction(m) ==
    /\ m.raw = "object"
    /\ m.type = "shopping_action"
    /\ m.action \notin {"add_item", "get_list", "clear_list"}

\* C9: a shopping_action with an unknown action is answered with an error
\* response naming the action; the shopping list is unchanged and the
\* connection stays open.
C9_UnknownActionError ==
    [][\A w \in WebSockets :
          (pc[w] = "receive" /\ UnknownAction(data'[w])) =>
              /\ pc'[w] = "send"
              /\ resp'[w].type = "error"
              /\ resp'[w].message = <<"Unknown action", data'[w].action>>
              /\ UNCHANGED <<active_connections, shopping_list>>
              /\ \E i \in 1..Len(active_connections) : active_connections[i] = w]_vars

\* the error for the unknown action remove_item is about to be sent, the list not empty
C9_Witness ==
    \E w \in WebSockets :
        /\ pc[w] = "send"
        /\ resp[w].type = "error"
        /\ resp[w].message = <<"Unknown action", "remove_item">>
        /\ shopping_list # <<>>

\* C10: a session opened for a voice_input is closed by the time the handler
\* has its response (so a handler at send, at receive or ended holds none),
\* and the runner map has an entry only for a client_id with a live handler.
C10_SessionsClosedRunnersRemoved ==
    /\ \A w \in WebSockets : sess[w] # 0 => pc[w] = "session"
    /\ (\A w \in WebSockets : pc[w] \in {"closed", "receive", "send"}) =>
           Cardinality({w \in WebSockets : sess[w] # 0}) = 0
    /\ \A c \in ClientIds :
           agent_runners[c] # 0 => \E w \in WebSockets : pc[w] # "closed" /\ cid[w] = c

\* a voice_response is ready after its session was closed, while another
\* client's handler has ended and left no runner behind
C10_Witness ==
    \E w \in WebSockets, p \in stale_runners :
        /\ pc[w] = "send"
        /\ resp[w].type = "voice_response"
        /\ sess[w] = 0
        /\ p[1] # cid[w]
        /\ agent_runners[p[1]] = 0

\* C11: the voice turns of one connection are carried on one session: the
\* session a voice_input opened is still open when its voice_response is
\* ready, so that the next voice_input reuses it instead of opening another.
C11_SessionOutlivesTurn ==
    \A w \in WebSockets :
        (pc[w] = "send" /\ resp[w].type = "voice_response") => sess[w] # 0

\* the vocabulary entry is detected in the text
Detects(v, text) == \E k \in v.keys : Contains(Lower(text), k)

\* C14: when keyword detection on a voice_input finds a product whose name
\* is already in the store (compared in lower case), the existing entry's
\* quantity is increased by 1 and no entry is added for it.
C14_DetectedExistingIncremented ==
    [][\A w \in WebSockets :
          (pc[w] = "session" /\ pc'[w] = "send" /\ resp'[w].type = "voice_response") =>
              \A n \in 1..Len(Vocabulary), i \in 1..Len(shopping_list) :
                  (/\ Detects(Vocabulary[n], user_text[w])
                   /\ Lower(shopping_list[i].name) = Lower(Vocabulary[n].name)) =>
                      /\ shopping_list'[i].quantity = shopping_list[i].quantity + 1
                      /\ Cardinality({j \in 1..Len(shopping_list') :
                             Lower(shopping_list'[j].name) = Lower(Vocabulary[n].name)})
                           = Cardinality({j \in 1..Len(shopping_list) :
                                 Lower(shopping_list[j].name) = Lower(Vocabulary[n].name)})]_vars

\* websocket is in the connection list
Connected(conns, websocket) == \E i \in 1..Len(conns) : conns[i] = websocket

\* the connection list without websocket, the others in their order
Without(conns, websocket) ==
    LET Other(v) == v # websocket
    IN  SelectSeq(conns, Other)

\* C26: when the handler of one websocket ends, by disconnect or by an
\* exception, that websocket alone leaves active_connections and the entry of
\* its client_id alone leaves the runner map; the handlers, sessions and
\* runners of the other websockets and the shopping list are as they were,
\* and the server keeps serving: a closed websocket can connect again.
C26_FailureEndsOnlyThatSession ==
    [][\A w \in WebSockets :
          /\ (pc[w] # "closed" /\ pc'[w] = "closed") =>
                /\ Connected(active_connections, w)
                /\ active_connections' = Without(active_connections, w)
                /\ agent_runners' = [agent_runners EXCEPT ![cid[w]] = 0]
                /\ shopping_list' = shopping_list
                /\ \A v \in WebSockets \ {w} :
                      /\ pc'[v] = pc[v]
                      /\ cid'[v] = cid[v]
                      /\ sess'[v] = sess[v]
                      /\ runner'[v] = runner[v]
                      /\ data'[v] = data[v]
                      /\ resp'[v] = resp[v]
          /\ pc[w] = "closed" => \A c \in ClientIds : ENABLED Connect(w, c)]_vars

\* the handler of one client ended on invalid JSON and its runner was
\* removed, while another client's voice_input is in its session with its
\* runner mapped, its websocket the only one connected, the list not empty
C26_Witness ==
    \E w, v \in WebSockets, p \in stale_runners :
        /\ pc[w] = "closed"
        /\ data[w].raw = "invalid_json"
        /\ agent_runners[p[1]] = 0
        /\ pc[v] = "session"
        /\ cid[v] # p[1]
        /\ agent_runners[cid[v]] = sess[v]
        /\ active_connections = <<v>>
        /\ shopping_list # <<>>

\* C27: when runner.run(), the session's send_message or its event stream
\* fails (or ends without an agent_message) during a voice_input, the session
\* is closed, the one response of that message is error-typed, and no other
\* session is opened for the message: a session is opened only from
\* runner.run(), runner.run() is reached only by a newly received
\* voice_input, and a handler that has its response goes on to send it.
C27_RemoteFailureAnsweredOnce ==
    [][\A w \in WebSockets :
          /\ (pc[w] \in {"run", "session"} /\ pc'[w] \notin {"run", "session"}) =>
                /\ pc'[w] = "send"
                /\ sess'[w] = 0
                /\ resp'[w].type \in {"error", "voice_response"}
                /\ resp'[w].type = "voice_response" => pc[w] = "session"
                /\ Connected(active_connections', w)
          /\ (sess[w] = 0 /\ sess'[w] # 0) => (pc[w] = "run" /\ pc'[w] = "session")
          /\ (pc[w] # "run" /\ pc'[w] = "run") =>
                (pc[w] = "receive" /\ data'[w].type = "voice_input")
          /\ (pc[w] = "run" /\ pc'[w] # "run") => pc'[w] \in {"session", "send"}
          /\ pc[w] = "send" =>
                /\ pc'[w] \in {"send", "receive", "closed"}
                /\ pc'[w] = "send" => resp'[w] = resp[w]]_vars

\* the session of a voice_input raised: it is closed, the runner is still
\* mapped, and the error response is about to be sent
C27_Witness ==
    \E w \in WebSockets :
        /\ pc[w] = "send"
        /\ data[w].type = "voice_input"
        /\ resp[w].type = "error"
        /\ resp[w].message = <<"Error processing voice input", "session">>
        /\ sess[w] = 0
        /\ agent_runners[cid[w]] # 0

\* C28: without the credential the backend does not serve: no WebSocket is
\* accepted, no message is processed, the shopping list is never written.
C28_NoServingWithoutCredential ==
    ~openai_api_key =>
        /\ \A w \in WebSockets : pc[w] = "closed"
        /\ active_connections = <<>>
        /\ shopping_list = <<>>

----------------------------------------------------------------------------
(* Properties: both stores                                                 *)

\* the handler of w takes a shopping_action frame with this action and has its response
ShoppingStep(w, action) ==
    /\ pc[w] = "receive"
    /\ pc'[w] = "send"
    /\ data'[w].type = "shopping_action"
    /\ data'[w].action = action

\* C17: after clear the store is empty, whatever it held: in the CLI,
\* clear_list leaves no entry and a display that follows prints no group; in
\* the backend, clear_list empties the list and reports total_items 0, and a
\* get_list on the emptied list returns no items.
C17_ClearEmpties ==
    [][/\ cli_op'.op = "clear_list" => (cli_items' = <<>> /\ display(cli_items') = <<>>)
       /\ (cli_op.op = "clear_list" /\ cli_op'.op = "display") => cli_out' = <<>>
       /\ \A w \in WebSockets :
             /\ ShoppingStep(w, "clear_list") =>
                   /\ shopping_list' = <<>>
                   /\ resp'[w].action = "list_cleared"
                   /\ resp'[w].total_items = 0
             /\ (ShoppingStep(w, "get_list") /\ shopping_list = <<>>) =>
                   /\ resp'[w].type = "shopping_list"
                   /\ resp'[w].items = <<>>
                   /\ resp'[w].total_items = 0]_vars

\* clear_list found two entries or more and left none
C17_Witness ==
    /\ cli_op.op = "clear_list"
    /\ Len(cli_before) >= 2
    /\ cli_items = <<>>

\* C18: the shopping list is mutated only by add, remove and clear. In the
\* CLI, display leaves the list as it is, and the list changes only in an
\* add_item, a remove_item, a clear_list or a keyword detection. In the
\* backend, get_list leaves the list as it is and returns it, and the list
\* changes only in a facade add_item or clear_list, in the keyword detection
\* of a voice_input, or by the append of a POST /api/shopping-list: never in
\* GET /api/shopping-list or GET /health.
C18_OnlyAddRemoveClearMutate ==
    [][/\ cli_op'.op = "display" => cli_items' = cli_items
       /\ cli_items' # cli_items =>
             cli_op'.op \in {"add_item", "remove_item", "clear_list", "process_shopping_items"}
       /\ \A w \in WebSockets :
             ShoppingStep(w, "get_list") =>
                 /\ shopping_list' = shopping_list
                 /\ resp'[w].items = shopping_list
       /\ shopping_list' # shopping_list =>
             \/ \E w \in WebSockets :
                   ShoppingStep(w, "add_item") \/ ShoppingStep(w, "clear_list")
             \/ \E w \in WebSockets :
                   pc[w] = "session" /\ pc'[w] = "send" /\ resp'[w].type = "voice_response"
             \/ /\ UNCHANGED <<pc, data, resp>>
                /\ \E d \in ItemData :
                      shopping_list' = Append(shopping_list,
                          [name |-> d.name, quantity |-> d.quantity,
                           category |-> d.category, notes |-> d.notes])]_vars

\* get_list has returned a store of two items and left it as it was
C18_Witness ==
    \E w \in WebSockets :
        /\ pc[w] = "send"
        /\ data[w].action = "get_list"
        /\ resp[w].type = "shopping_list"
        /\ Len(resp[w].items) = 2
        /\ shopping_list = resp[w].items

\* C19: every item of a shopping list has a quantity >= 1 after any sequence
\* of add operations (CLI add_item, the facade's add_item, POST
\* /api/shopping-list, keyword detection).
C19_QuantitiesPositive ==
    /\ \A i \in 1..Len(cli_items) : cli_items[i].quantity >= 1
    /\ \A i \in 1..Len(shopping_list) : shopping_list[i].quantity >= 1

----------------------------------------------------------------------------
(* Properties: keyword detection                                           *)

\* the indexes of the vocabulary entries one of whose keywords is a substring
\* of the lowercased text
Hits(vocabulary, text) ==
    {n \in 1..Len(vocabulary) : Detects(vocabulary[n], text)}

\* list is exactly the entries of the vocabulary hit by text, each once as
\* (name, 1, category), in the vocabulary's order
ExactlyTheHits(vocabulary, list, text) ==
    /\ Len(list) = Cardinality(Hits(vocabulary, text))
    /\ \A n \in Hits(vocabulary, text) :
          LET at == 1 + Cardinality({m \in Hits(vocabulary, text) : m < n})
          IN  list[at] = [name |-> vocabulary[n].name, quantity |-> 1,
                          category |-> vocabulary[n].category, notes |-> ""]

\* C15: keyword detection maps a text to exactly the vocabulary entries one
\* of whose keywords is a substring of the lowercased text (a part of a word
\* counts), each once with quantity 1 and its category however often the
\* keyword occurs, in the vocabulary's order: that is what the CLI and the
\* backend add to an empty store, and what neither adds is added by no text.
\* "I need milk and bread" yields (milk, 1, dairy), (bread, 1, bakery).
C15_DetectionIsSubstringMatch ==
    [][\A text \in DetectTexts :
          heard' = Append(heard, text) =>
              /\ heard = <<>> =>
                    /\ ExactlyTheHits(CliVocabulary, cli_items', text)
                    /\ ExactlyTheHits(Vocabulary, shopping_list', text)
              /\ text = INeedMilkAndBread /\ heard = <<>> =>
                    /\ cli_items' = <<cli_ShoppingItem(milk, 1, "dairy", ""),
                                      cli_ShoppingItem(bread, 1, "bakery", "")>>
                    /\ shopping_list' = <<ShoppingItem(milk, 1, "dairy", ""),
                                          ShoppingItem(bread, 1, "bakery", "")>>
              /\ {Lower(cli_items'[i].name) : i \in 1..Len(cli_items')}
                    = {Lower(cli_items[i].name) : i \in 1..Len(cli_items)}
                      \cup {CliVocabulary[n].name : n \in Hits(CliVocabulary, text)}
              /\ {Lower(shopping_list'[i].name) : i \in 1..Len(shopping_list')}
                    = {Lower(shopping_list[i].name) : i \in 1..Len(shopping_list)}
                      \cup {Vocabulary[n].name : n \in Hits(Vocabulary, text)}]_vars

\* "buttermilk" was heard first: both stores hold milk, then butter
C15_Witness ==
    /\ heard = <<butter \o milk>>
    /\ cli_items = <<cli_ShoppingItem(milk, 1, "dairy", ""),
                     cli_ShoppingItem(butter, 1, "dairy", "")>>
    /\ shopping_list = cli_items

----------------------------------------------------------------------------
(* Properties: realtime.py                                                 *)

\* C3: the capture callback never waits forever on the mic queue: it is never
\* waiting in q.put on a full queue after the send loop has ended.
C3_CallbackNeverStuck ==
    ~(cb_pc = "put" /\ Len(mic_q) = MicQueueMax /\ sender_pc = "done")

\* both loops ended, the stop flag set, the capture thread out of audio_stream
AllHalted ==
    /\ sender_pc = "done"
    /\ receiver_pc \in {"done", "raised"}
    /\ stop_evt
    /\ mic_pc = "done"

\* C4: closing the session halts both loops, sets the stop flag and lets the
\* capture thread leave audio_stream: the program never comes to rest before
\* all of that has happened.
C4_ClosingHaltsAll == AllHalted \/ ENABLED RtNext

\* C20: an error event of fatal severity ends the receive loop: once
\* receiver() was handed one, it is not taking further events.
C20_FatalErrorEndsLoop == fatal_seen => receiver_pc # "recv"

\* the types receiver() has an empty branch or no branch for: the audio-done
\* and text-done markers, and a type it does not know
IgnoredTypes ==
    {"response.audio.done", "response.output_text.done", "input_audio_buffer.speech_started"}

\* C21: an event of an unrecognized type, an audio-done or a text-done marker
\* neither ends the receive loop nor plays audio nor raises: the dispatch of
\* one leaves the loop receiving and everything else as it was, the loop can
\* take an audio delta next, and a non-empty audio delta that comes next is
\* played.
C21_MarkersAndUnknownIgnored ==
    [][/\ (rx_last' # rx_last /\ rx_last'.type \in IgnoredTypes) =>
             /\ receiver_pc' = "recv"
             /\ ~rx_last'.played
             /\ UNCHANGED <<player_open, ws_open, stop_evt, main_pc, sender_pc, mic_q,
                            chunk, last_append, fatal_seen>>
       /\ (rx_last.type \in IgnoredTypes /\ receiver_pc = "recv" /\ ws_open /\ LoopFree) =>
             ENABLED ReceiverEvent("response.audio.delta")
       /\ (/\ rx_last.type \in IgnoredTypes
           /\ rx_last' # rx_last
           /\ rx_last'.type = "response.audio.delta"
           /\ rx_last'.b64) =>
             /\ rx_last'.played
             /\ receiver_pc' = "recv"]_vars

\* an event of a type receiver() does not know was dispatched while audio was
\* being sent, and the loop is receiving
C21_Witness ==
    /\ rx_last.type = "input_audio_buffer.speech_started"
    /\ receiver_pc = "recv"
    /\ ws_open
    /\ last_append # -1

\* C22: a frame is taken from the mic queue once, from its head, and frames
\* are sent in capture order: the queue holds consecutive frames, the first
\* frame sent is the first captured and every frame sent is the one captured
\* right after the frame sent before it.
C22_FramesSentOnceInOrder ==
    [][/\ \A i \in 1..(Len(mic_q) - 1) : mic_q[i + 1] = (mic_q[i] + 1) % NumFrameIds
       /\ (sender_pc = "get" /\ sender_pc' = "send") =>
             /\ chunk' = Head(mic_q)
             /\ mic_q' = Tail(mic_q)
       /\ (sender_pc = "send" /\ sender_pc' = "backoff") =>
             /\ last_append' = chunk
             /\ chunk = (last_append + 1) % NumFrameIds
       /\ last_append' # last_append => (sender_pc = "send" /\ sender_pc' = "backoff")]_vars

\* frames 0 and 1 were sent, frame 2 is about to be, two more are queued
C22_Witness ==
    /\ last_append = 1
    /\ chunk = 2
    /\ sender_pc = "send"
    /\ Len(mic_q) >= 2

\* C23: once the stop flag is set, the send loop takes no frame from the mic
\* queue and sends no input_audio_buffer.append, whatever the queue holds:
\* what is queued stays queued.
C23_NoSendAfterStop ==
    [][stop_evt =>
          /\ sender_pc \notin {"get", "send"}
          /\ sender_pc' \notin {"get", "send"}
          /\ last_append' = last_append
          /\ Len(mic_q') >= Len(mic_q)]_vars

\* the receive loop raised, main set the stop flag, and the send loop ended
\* on seeing it while two frames or more were queued
C23_Witness ==
    /\ stop_evt
    /\ receiver_pc = "raised"
    /\ main_pc = "close_ws"
    /\ sender_pc = "done"
    /\ Len(mic_q) >= 2
    /\ last_append # -1

\* the event-loop thread is inside the send loop's synchronous section
LoopBusy == sender_pc \in {"get", "send"}

\* C24: the send loop never keeps the event loop for ever: whenever it is in
\* its blocking dequeue (or handing a frame over), it comes to an await, the
\* dequeue on an empty queue by its timeout, and the receive loop can then
\* dispatch.
C24_SendLoopYields ==
    /\ LoopBusy ~> ~LoopBusy
    /\ [](receiver_pc = "recv" /\ ws_open /\ LoopFree =>
             \A t \in EventTypes : ENABLED ReceiverEvent(t))

\* no frame was ever captured, the send loop timed out and sleeps, and the
\* receive loop has dispatched an event
C24_Witness ==
    /\ sender_pc = "sleep"
    /\ mic_q = <<>>
    /\ cb_pc = "idle"
    /\ last_append = -1
    /\ captured = 0
    /\ rx_last.type # "none"
    /\ receiver_pc = "recv"

\* C25: one session.update is sent per connection, before anything else:
\* never a second one; main() is past its configuration step only with the
\* one sent; and capture has started, a frame was captured, queued, taken or
\* sent only after it.
C25_OneSessionUpdateFirst ==
    /\ session_updates <= 1
    /\ main_pc \in {"greet", "capture", "player", "gather", "finally", "close_ws"} =>
          session_updates = 1
    /\ (mic_pc # "unborn" \/ cb_pc # "idle" \/ captured # 0 \/ mic_q # <<>>) =>
          session_updates = 1
    /\ (chunk # -1 \/ last_append # -1 \/ sender_pc # "unborn") => session_updates = 1

\* main() connected, sent its session.update, started capture and the tasks,
\* and the second frame is being sent
C25_Witness ==
    /\ session_updates = 1
    /\ main_pc = "gather"
    /\ last_append = 0
    /\ chunk = 1
    /\ sender_pc = "send"

----------------------------------------------------------------------------
(* Properties: voice_duplex_chat.py                                        *)

\* C29: when audio_to_text yields no text (sr.UnknownValueError or
\* sr.RequestError, or an empty text), chat_with_agent returns (None, "Could
\* not understand audio") and has opened no session; the conversation loop
\* then records again; and audio_to_text is only ever given the recording
\* just made, which it was not given before.
C29_UnrecognizedNotRetried ==
    [][/\ (vd_pc = "recognize" /\ vd_pc' \notin {"recognize", "done"}) =>
             /\ ~vd_recognized
             /\ vd_recognized'
             /\ vd_audio' = vd_audio
             /\ vd_sessions' = 0
             /\ ~vd_open'
             /\ IF Not(vd_text')
                THEN /\ vd_pc' = "returned"
                     /\ vd_result' = [response_audio |-> -1,
                                      transcript |-> "Could not understand audio"]
                ELSE vd_pc' = "run"
       /\ (vd_pc = "recognize" /\ vd_pc' = "recognize") =>
             UNCHANGED <<vd_audio, vd_recognized, vd_outcome, vd_text, vd_sessions,
                         vd_open, vd_result>>
       /\ (vd_pc = "returned" /\ vd_result.transcript = "Could not understand audio") =>
             /\ vd_pc' \in {"returned", "record", "done"}
             /\ vd_sessions' = 0
             /\ ~vd_open'
       /\ (vd_pc # "recognize" /\ vd_pc' = "recognize") =>
             /\ vd_pc = "recording"
             /\ vd_audio' = vd_rec
             /\ ~vd_recognized'
       /\ vd_sessions' > vd_sessions => vd_pc \in {"run", "debug_run"}]_vars

\* the second recording could not be recognised (request error), no session
\* was opened for it, and the loop is recording again
C29_Witness ==
    /\ vd_pc = "record"
    /\ vd_outcome = "RequestError"
    /\ vd_recognized
    /\ vd_audio = 1
    /\ vd_result = [response_audio |-> -1, transcript |-> "Could not understand audio"]
    /\ vd_sessions = 0
    /\ vd_streams

----------------------------------------------------------------------------
(* Properties: the CLI loop                                                *)

\* C30: an Exception raised in an iteration of ShoppingAssistant.run is
\* caught and reported, run() is then at the prompt again where a command
\* is accepted, and the shopping list (and the conversation history) is as
\* it was when the exception was raised.
C30_ExceptionKeepsLoopAndList ==
    [][/\ (cli_report' = "error" /\ runVars' # runVars) =>
             /\ cli_pc \in {"prompt", "chat"}
             /\ cli_pc' = "prompt"
             /\ cli_items' = cli_items
             /\ conversation_history' = conversation_history
       /\ cli_report = "error" => cli_pc = "prompt" /\ ENABLED RunList(<<"l", "i", "s", "t">>)]_vars

\* the exception came after process_shopping_items had added two items, in
\* the first iteration with a text: the loop is at the prompt, the two items
\* are on the list, no exchange was appended
C30_Witness ==
    /\ cli_report = "error"
    /\ cli_pc = "prompt"
    /\ Len(cli_items) = 2
    /\ cli_op.op = "process_shopping_items"
    /\ conversation_history = 0

----------------------------------------------------------------------------
(* Properties: the backend, one response per request                       *)

\* C31: every JSON-object message read on a connection is answered: the
\* handler goes on to compute a response and to send_personal_message on its
\* own websocket, it reads the next message only after that send, and a
\* send on one websocket leaves the responses of the other handlers alone.
C31_OneResponsePerRequest ==
    [][\A w \in WebSockets :
          /\ (pc[w] = "receive" /\ data'[w].raw = "object") => pc'[w] \in {"run", "send"}
          /\ pc[w] = "run" => pc'[w] \in {"run", "session", "send"}
          /\ pc[w] = "session" => pc'[w] \in {"session", "send"}
          /\ pc'[w] = "receive" => pc[w] \in {"receive", "closed", "send"}
          /\ (pc[w] = "send" /\ pc'[w] = "receive") =>
                /\ resp[w] # NoResponse
                /\ \A v \in WebSockets \ {w} : pc'[v] = pc[v] /\ resp'[v] = resp[v]]_vars

----------------------------------------------------------------------------
(* Properties: the backend, the agent's answer                             *)

\* the fallback response of process_voice_input_with_agent
NoAgentMessage ==
    [NoResponse EXCEPT !.type = "error",
                       !.message = <<"No response received from RealtimeAgent">>]

\* C32: while the handler iterates over the session's events no response
\* exists and events that are not agent_message change nothing; the step
\* that leaves the iteration closes the session and fixes the response: a
\* voice_response carrying the user text and an agent_message's content, or
\* the error "No response received from RealtimeAgent" (or the error of an
\* exception); afterwards the response stays as it is until it is sent, and
\* a voice_response comes from nowhere else.
C32_FirstAgentMessageAnswers ==
    [][\A w \in WebSockets :
          /\ pc[w] = "session" => resp[w] = NoResponse /\ openai_api_key /\ user_text[w] # <<>>
          /\ (pc[w] = "session" /\ pc'[w] = "session") =>
                resp'[w] = resp[w] /\ sess'[w] = sess[w] /\ user_text'[w] = user_text[w]
          /\ (pc[w] = "session" /\ pc'[w] # "session") =>
                /\ pc'[w] = "send"
                /\ sess'[w] = 0
                /\ \/ /\ resp'[w].type = "voice_response"
                      /\ resp'[w].transcribed_text = user_text[w]
                      /\ resp'[w].ai_response \in Contents
                   \/ resp'[w] = NoAgentMessage
                   \/ resp'[w] = [NoResponse EXCEPT !.type = "error",
                          !.message = <<"Error processing voice input", "session">>]
          /\ (pc[w] = "send" /\ pc'[w] = "send") => resp'[w] = resp[w] /\ sess'[w] = sess[w]
          /\ (resp'[w].type = "voice_response" /\ resp'[w] # resp[w]) => pc[w] = "session"]_vars

\* the voice_input "Milk" is about to be answered with the agent's message
C32_Witness ==
    \E w \in WebSockets :
        /\ pc[w] = "send"
        /\ data[w].type = "voice_input"
        /\ resp[w] = [NoResponse EXCEPT !.type = "voice_response",
                                        !.transcribed_text = Milk,
                                        !.ai_response = "What else?"]
        /\ sess[w] = 0

\* C33: the step that answers a voice_input with an error-typed response
\* leaves shopping_list as it is, and the only step of a voice_input's
\* processing that changes shopping_list is the one that produces a
\* voice_response (the other changes come from shopping_action messages and
\* POST /api/shopping-list).
C33_ErrorAnswerKeepsList ==
    [][/\ \A w \in WebSockets :
             (data'[w].type = "voice_input" /\ resp'[w].type = "error" /\ resp'[w] # resp[w]) =>
                 shopping_list' = shopping_list
       /\ shopping_list' # shopping_list =>
             \/ \E w \in WebSockets :
                   /\ pc[w] = "session"
                   /\ pc'[w] = "send"
                   /\ resp'[w].type = "voice_response"
             \/ \E w \in WebSockets :
                   /\ pc[w] = "receive"
                   /\ data'[w].type = "shopping_action"
             \/ pc' = pc]_vars

\* the voice_input "Milk" got no agent_message: the error is about to be
\* sent and no milk was added
C33_Witness ==
    \E w \in WebSockets :
        /\ pc[w] = "send"
        /\ data[w].type = "voice_input"
        /\ data[w].text = Milk
        /\ resp[w] = NoAgentMessage
        /\ shopping_list = <<>>
        /\ openai_api_key

----------------------------------------------------------------------------
(* Properties: voice_duplex_chat.py, the audio queues                      *)

\* C34: every frame record_audio has collected was captured during the
\* recording it is making (and so is every frame it returns).
C34_FramesFromOwnWindow ==
    \A i \in 1..Len(vd_frames) : vd_frames[i] = vd_rec

\* the chunks in a sequence of what the output callback returned
NonSilent(returned) == SelectSeq(returned, LAMBDA c : c.offset # -1)

\* chunk i starts at byte (i - 1) * chunk_size, every chunk is chunk_size
\* bytes long, only the last one is padded, and there are
\* ceil(len / chunk_size) of them, len the number of audio bytes in them
WellChunked(chunks) ==
    LET chunk_size == CHUNK * CHANNELS * 2
        n == Len(chunks)
        len == IF n = 0 THEN 0 ELSE (n - 1) * chunk_size + chunks[n].data
    IN  /\ \A i \in 1..n :
              /\ chunks[i].offset = (i - 1) * chunk_size
              /\ chunks[i].data >= 1
              /\ chunks[i].data + chunks[i].pad = chunk_size
              /\ i < n => chunks[i].pad = 0
        /\ n = (len + chunk_size - 1) \div chunk_size

\* C35: play_audio cuts the audio into ceil(len / chunk_size) chunks of
\* chunk_size bytes, the last one padded; what the output callback has
\* handed to the device, what waits in output_queue and what the for loop
\* has still to put are, in this order, those chunks; play_audio has
\* returned only with all of them taken; and the output callback can always
\* run, with a chunk or with silence.
C35_PlaybackChunksInOrder ==
    /\ \A len \in {0, 1, 2047, 2048, 2049, 4096, 4097} :
          /\ WellChunked(play_chunks(len, 0))
          /\ Len(play_chunks(len, 0)) = (len + 2047) \div 2048
    /\ vd_pc = "play" =>
          /\ WellChunked(NonSilent(vd_device) \o vd_output_queue \o vd_to_play)
          /\ NonSilent(vd_device) \o vd_output_queue \o vd_to_play # <<>>
          /\ vd_playing
    /\ vd_pc \notin {"play", "done"} =>
          vd_output_queue = <<>> /\ vd_to_play = <<>> /\ ~vd_playing
    /\ (vd_pc = "play" /\ vd_output_queue # <<>>) => ENABLED VdOutputCallback
    /\ (vd_pc = "play" /\ vd_output_queue = <<>>
          /\ Cardinality({i \in 1..Len(vd_device) : vd_device[i].offset = -1}) < MaxSilence) =>
          ENABLED VdOutputCallback

\* 2049 bytes are being played: the callback has taken the first chunk, then
\* found the queue empty, then taken the padded second chunk; play_audio is
\* about to return
C35_Witness ==
    /\ vd_pc = "play"
    /\ vd_to_play = <<>>
    /\ vd_output_queue = <<>>
    /\ Len(vd_device) = 3
    /\ vd_device[2].offset = -1
    /\ NonSilent(vd_device) = <<[offset |-> 0, data |-> 2048, pad |-> 0],
                                [offset |-> 2048, data |-> 1, pad |-> 2047]>>

----------------------------------------------------------------------------
(* Properties: voice_duplex_chat.py, collecting the reply                  *)

\* C36: a transcript delta or an audio event never ends the collection of
\* the reply: chat_with_agent leaves its event loop only on a step that adds
\* nothing to the transcript and to the audio (the end of the reply was
\* signalled), so what arrives after the transcript passed 10 characters is
\* collected too.
C36_CollectionEndsOnDoneMarker ==
    [][(vd_pc = "session" /\ vd_pc' \notin {"session", "done"}) =>
           (vd_transcript' = vd_transcript /\ vd_chunks' = vd_chunks)]_vars

----------------------------------------------------------------------------
(* Properties: cli_shopping.py, leaving the interactive loop               *)

\* the typed lines that are quit, exit or bye once trimmed and lowered
QuitLines ==
    { <<"q", "u", "i", "t">>, <<" ", "Q", "U", "I", "T", " ">>,
      <<"E", "x", "i", "t">>, <<"b", "y", "e">> }

\* the typed lines that are empty, or list or help once trimmed and lowered
QuietLines ==
    { <<>>, <<" ">>, <<"L", "i", "s", "t", " ">>, <<" ", "H", "E", "L", "P">> }

\* this step is an iteration in which input() returned a line
LineRead ==
    /\ cli_pc = "prompt"
    /\ cli_report' \in {"empty", "quit", "list", "clear", "help", "text"}
    /\ <<runVars, cliVars>>' # <<runVars, cliVars>>

\* C37: the loop is left on, and only on, a line that is quit, exit or bye
\* once trimmed and lowered, or on a KeyboardInterrupt; every other iteration
\* (an empty line, list, clear, help, a chat that returned, an exception such
\* as end-of-input) comes back to the prompt; and the iterations of an empty
\* line, list, help and quit neither run the keyword detection nor reach the
\* chat with the agent
C37_LoopExitsOnQuitOrInterrupt ==
    [][/\ (cli_pc \in {"prompt", "chat"} /\ cli_pc' = "exited") =>
              \/ cli_report' = "interrupt"
              \/ cli_pc = "prompt" /\ cli_report' = "quit" /\ cli_input' \in QuitLines
       /\ (LineRead /\ cli_input' \in QuitLines) => cli_pc' = "exited"
       /\ (LineRead /\ cli_input' \notin QuitLines) => cli_pc' \in {"prompt", "chat"}
       /\ (LineRead /\ cli_pc' = "chat") =>
              cli_input' \notin (QuitLines \cup QuietLines \cup {<<"c", "l", "e", "a", "r">>})
       /\ (cli_pc \in {"prompt", "chat"} /\ cli_report' \in {"chat", "error"}
           /\ runVars' # runVars) => cli_pc' = "prompt"
       /\ (cli_pc \in {"prompt", "chat"} /\ cli_report' = "interrupt") => cli_pc' = "exited"
       /\ (LineRead /\ cli_input' \in (QuitLines \cup QuietLines)) =>
              /\ cli_items' = cli_items
              /\ conversation_history' = conversation_history
              /\ cli_pc' # "chat"
              /\ cli_op' = cli_op \/ cli_op'.op = "display"
      ]_vars

\* " QUIT " typed after a text was processed and answered: the loop is left
C37_Witness ==
    /\ cli_pc = "exited"
    /\ cli_report = "quit"
    /\ cli_input = <<" ", "Q", "U", "I", "T", " ">>
    /\ conversation_history = 1
    /\ Len(cli_items) > 0

----------------------------------------------------------------------------
(* Properties: the backend, the ConnectionManager's books                  *)

\* how many times websocket is in the list
Occurrences(conns, websocket) ==
    Cardinality({i \in 1..Len(conns) : conns[i] = websocket})

\* C38: active_connections holds exactly the websockets whose handler is
\* between connect and disconnect, each of them once, and agent_runners has
\* an entry for a client_id only if a connection under that client_id is
\* active
C38_BooksMatchActiveHandlers ==
    /\ \A w \in WebSockets :
           Occurrences(active_connections, w) = IF pc[w] # "closed" THEN 1 ELSE 0
    /\ \A c \in ClientIds :
           agent_runners[c] # 0 => \E w \in WebSockets : pc[w] # "closed" /\ cid[w] = c

\* two connections under one client_id, the first of them has left and taken
\* the runner's entry with it while the second, which holds that runner, is
\* still being served
C38_Witness ==
    /\ pc[1] = "closed"
    /\ pc[2] \notin {"closed", "receive"}
    /\ cid[2] = "a"
    /\ runner[2] # 0
    /\ <<"a", runner[2]>> \in stale_runners
    /\ agent_runners["a"] = 0
    /\ active_connections = <<2>>

============================================================================
